---- MODULE Spec2Model ----
(***************************************************************************)
(* A model of the workflow layer (workflow/src/nodeflow.cpp and            *)
(* workflow/include/workflow/nodeflow_impl.hpp): the GraphBuilder, the     *)
(* nodes it creates, the promises (value channels) the nodes own, and the  *)
(* execution of the builder's task graph by the executor.                  *)
(***************************************************************************)
EXTENDS Integers, Sequences, FiniteSets, TLC

VARIABLES
  gb,          \* the GraphBuilder: nodes_, tasks_, adapter_tasks_, taskflow_,
               \* subgraph_builders_, executor_, and the promises its nodes own
  phase,       \* "build", "running" (run() is waiting), "done" (run() returned)
  jc,          \* per task of taskflow_: the join counter
  queued,      \* per task: how many times it is scheduled and not yet started
  active,      \* per task: how many invocations are executing (or blocked)
  runs,        \* per task: invocations that completed normally
  fails,       \* per task: invocations that ended with an exception
  seen,        \* per task: the input mapping handed to its compute step last
  counter,     \* the externally owned cell the loop lambdas capture by reference
  scen,        \* the parameters of the program that built gb
  appending,   \* the tasks whose worker is inside subgraph_builders_.push_back
  last_call    \* the last builder operation: its name, arguments and exception

vars == <<gb, phase, jc, queued, active, runs, fails, seen, counter, scen, appending,
          last_call>>

(***************************************************************************)
(* Bounds of the model.                                                    *)
(***************************************************************************)
MaxCalls == 3        \* creation calls made in the build phase
MaxControlCalls == 2 \* creation calls made when control-flow nodes are built
MaxSpecs == 2        \* input specs of one creation call
MaxBound == 5        \* loop bounds n are drawn from 0..MaxBound
NumWorkers == 2      \* worker threads of the executor
MaxRuns == 7         \* invocations of one task that are followed
ValMod == 4          \* channel values are integers modulo ValMod

(***************************************************************************)
(* Small maps (std::unordered_map) and sequences.                          *)
(***************************************************************************)
EmptyMap == <<>>

Put(m, k, v) == [x \in (DOMAIN m) \cup {k} |-> IF x = k THEN v ELSE m[x]]

Range(s) == {s[i] : i \in DOMAIN s}

\* F applied to the value of x, which is computed once
Bind(x, F(_)) == CHOOSE r \in {F(v) : v \in {x}} : TRUE

SeqsUpTo(S, n) == UNION {[1..k -> S] : k \in 0..n}

RECURSIVE SumOver(_, _)
SumOver(f, S) ==
  IF S = {} THEN 0
  ELSE LET x == CHOOSE y \in S : TRUE IN f[x] + SumOver(f, S \ {x})

(***************************************************************************)
(* Values carried by channels: a dynamic type tag and a small integer.     *)
(***************************************************************************)
Val(t, v) == [type |-> t, v |-> v]

\* std::promise / std::shared_future shared state
Unset == [set |-> FALSE, val |-> Val("none", 0), exc |-> FALSE]

(***************************************************************************)
(* The closure a task (or a node's functor) runs: what the lambda captured.*)
(*   type   which lambda                                                   *)
(*   fin    input futures: key -> promise id (typed: index -> promise id)  *)
(*   out    any-promises by key (AnyOutputs::promises, futures_map)        *)
(*   tprom  typed promises by index (TypedOutputs::promises)               *)
(*   aprom  any-promises by index (TypedOutputs::any_promises_)            *)
(*   op     the user's function, by the parameters that describe it        *)
(*   specs  the input specs the creation call declared (ghost)             *)
(***************************************************************************)
NoOp == [keys |-> {}, vals |-> EmptyMap, ret |-> <<>>, bound |-> 0, stop |-> 0,
         body |-> "", T |-> "", nout |-> 0]

Closure(type, name, fin, out, tprom, aprom, op, specs) ==
  [type |-> type, name |-> name, fin |-> fin, out |-> out, tprom |-> tprom,
   aprom |-> aprom, op |-> op, specs |-> specs]

NoClosure == Closure("none", "", EmptyMap, EmptyMap, <<>>, <<>>, NoOp, <<>>)

\* a node of tf::Taskflow: kind is the scheduler's task kind
TfNode(name, kind, w) == [name |-> name, kind |-> kind, w |-> w, succ |-> <<>>]

(***************************************************************************)
(* The GraphBuilder after construction (GraphBuilder::GraphBuilder).  heap *)
(* holds the shared state of every promise a node or adapter created; a    *)
(* promise is named by its index in heap.                                  *)
(***************************************************************************)
EmptyBuilder ==
  [nodes_ |-> EmptyMap, tasks_ |-> EmptyMap, adapter_tasks_ |-> EmptyMap,
   taskflow_ |-> <<>>, subgraph_builders_ |-> 0, executor_ |-> FALSE,
   heap |-> <<>>]

\* the outcome of a builder operation: the builder it leaves and what it threw
Ok(b) == [b |-> b, err |-> ""]

Throw(b, e) == [b |-> b, err |-> e]

\* std::make_shared<std::promise<T>>() n times
Alloc(b, n) == [b EXCEPT !.heap = @ \o [i \in 1..n |-> Unset]]

\* the promise ids a key set gets when allocated after `base`
KeyIds(base, K) ==
  CHOOSE f \in [K -> (base + 1)..(base + Cardinality(K))] :
    \A k1, k2 \in K : k1 # k2 => f[k1] # f[k2]

\* tf::Taskflow::emplace: the new task is the last node of the graph
Emplace(b, node) == [b EXCEPT !.taskflow_ = Append(@, node)]

LastTask(b) == Len(b.taskflow_)

\* tf::Task::precede: one more successor of `from` (and dependent of `to`)
Precede(b, from, to) == [b EXCEPT !.taskflow_[from].succ = Append(@, to)]

(***************************************************************************)
(* GraphBuilder::get_output and INode::get_output_future.                  *)
(***************************************************************************)
GetOutputErr(b, node_name, key) ==
  IF node_name \notin DOMAIN b.nodes_ THEN "Node not found"
  ELSE LET n == b.nodes_[node_name] IN
       IF n.type \in {"AnySink", "TypedSink"} THEN "Sink has no outputs"
       ELSE IF n.type = "PipelineNode" THEN "Pipeline nodes do not have key-based outputs"
       ELSE IF key \notin DOMAIN n.out THEN "Unknown output key"
       ELSE ""

GetOutput(b, node_name, key) == b.nodes_[node_name].out[key]

\* the exception the loop `input_futures[key] = get_output(node, key)` throws
InputFuturesErr(b, input_specs) ==
  LET bad == {i \in DOMAIN input_specs :
                GetOutputErr(b, input_specs[i][1], input_specs[i][2]) # ""} IN
  IF bad = {} THEN ""
  ELSE LET i == CHOOSE j \in bad : \A k \in bad : j <= k IN
       GetOutputErr(b, input_specs[i][1], input_specs[i][2])

\* input_futures[source_key] = get_output(source_node, source_key), in order:
\* the map is keyed by the source key alone, a later spec replaces an earlier one
InputFutures(b, input_specs) ==
  [k \in {input_specs[i][2] : i \in DOMAIN input_specs} |->
     LET last == CHOOSE i \in DOMAIN input_specs :
                   /\ input_specs[i][2] = k
                   /\ \A j \in DOMAIN input_specs : input_specs[j][2] = k => j <= i
     IN GetOutput(b, input_specs[last][1], k)]

\* the dependency registered the wrong way round: task.precede(source)
RECURSIVE AutoRegisterReversed(_, _, _, _)
AutoRegisterReversed(b, input_specs, task, i) ==
  IF i > Len(input_specs) THEN b
  ELSE LET src == input_specs[i][1]
           b1 == IF src \in DOMAIN b.tasks_ THEN Precede(b, task, b.tasks_[src]) ELSE b
       IN AutoRegisterReversed(b1, input_specs, task, i + 1)

\* "Auto-register dependencies": one precede call per input spec, in order
RECURSIVE AutoRegisterFrom(_, _, _, _)
AutoRegisterFrom(b, input_specs, task, i) ==
  IF i > Len(input_specs) THEN b
  ELSE LET src == input_specs[i][1]
           b1 == IF src \in DOMAIN b.tasks_ THEN Precede(b, b.tasks_[src], task) ELSE b
       IN AutoRegisterFrom(b1, input_specs, task, i + 1)

AutoRegister(b, input_specs, task) == AutoRegisterFrom(b, input_specs, task, 1)

(***************************************************************************)
(* GraphBuilder::add_node                                                  *)
(***************************************************************************)
AddNodeErr(b, node) ==
  IF node.name \in DOMAIN b.nodes_ THEN "Duplicate node name" ELSE ""

AddNode(b, node) ==
  LET b1 == [b EXCEPT !.nodes_ = Put(@, node.name, node)]
      b2 == Emplace(b1, TfNode(node.name, "static", node))
  IN [b2 EXCEPT !.tasks_ = Put(@, node.name, LastTask(b2))]

(***************************************************************************)
(* AnyOutputs(keys): one promise per key.                                  *)
(***************************************************************************)
AnyOutputs(b, keys) == KeyIds(Len(b.heap), keys)

(***************************************************************************)
(* GraphBuilder::create_any_source(name, values)                           *)
(***************************************************************************)
CreateAnySource(b, name, values) ==
  LET keys == DOMAIN values
      node == Closure("AnySource", name, EmptyMap, AnyOutputs(b, keys), <<>>, <<>>,
                      [NoOp EXCEPT !.vals = values], <<>>)
  IN IF AddNodeErr(b, node) # "" THEN Throw(b, AddNodeErr(b, node))
     ELSE Ok(AddNode(Alloc(b, Cardinality(keys)), node))

(***************************************************************************)
(* GraphBuilder::create_any_node(name, input_specs, functor, output_keys)  *)
(***************************************************************************)
CreateAnyNode(b, name, input_specs, op, output_keys) ==
  IF InputFuturesErr(b, input_specs) # "" THEN Throw(b, InputFuturesErr(b, input_specs))
  ELSE LET node == Closure("AnyNode", name, InputFutures(b, input_specs),
                           AnyOutputs(b, output_keys), <<>>, <<>>, op, input_specs)
       IN IF AddNodeErr(b, node) # "" THEN Throw(b, AddNodeErr(b, node))
          ELSE LET b1 == AddNode(Alloc(b, Cardinality(output_keys)), node)
               IN Ok(AutoRegister(b1, input_specs, LastTask(b1)))

(***************************************************************************)
(* GraphBuilder::create_any_sink(name, input_specs, callback)              *)
(***************************************************************************)
CreateAnySink(b, name, input_specs) ==
  IF InputFuturesErr(b, input_specs) # "" THEN Throw(b, InputFuturesErr(b, input_specs))
  ELSE LET node == Closure("AnySink", name, InputFutures(b, input_specs),
                           EmptyMap, <<>>, <<>>, NoOp, input_specs)
       IN IF AddNodeErr(b, node) # "" THEN Throw(b, AddNodeErr(b, node))
          ELSE LET b1 == AddNode(b, node)
               IN Ok(AutoRegister(b1, input_specs, LastTask(b1)))


(***************************************************************************)
(* TypedOutputs<Outs...>(keys): a typed promise and an any-promise per     *)
(* output index; futures_map and key_to_index_ are keyed by the key, so a  *)
(* key given twice maps to the last index that carries it.                 *)
(***************************************************************************)
TypedOutputsErr(keys, nout) ==
  IF Len(keys) # nout THEN "Number of keys must match number of outputs" ELSE ""

TypedPromises(b, nout) == [i \in 1..nout |-> Len(b.heap) + i]

TypedAnyPromises(b, nout) == [i \in 1..nout |-> Len(b.heap) + nout + i]

\* a registry that files every key under the first promise
FuturesMapFirst(keys, aprom) == [k \in Range(keys) |-> aprom[1]]

FuturesMap(keys, aprom) ==
  [k \in Range(keys) |->
     LET last == CHOOSE i \in DOMAIN keys :
                   keys[i] = k /\ \A j \in DOMAIN keys : keys[j] = k => j <= i
     IN aprom[last]]

(***************************************************************************)
(* GraphBuilder::create_typed_source(name, values, output_keys)            *)
(***************************************************************************)
CreateTypedSource(b, name, values, output_keys) ==
  LET nout == Len(values) IN
  IF TypedOutputsErr(output_keys, nout) # "" THEN Throw(b, TypedOutputsErr(output_keys, nout))
  ELSE LET aprom == TypedAnyPromises(b, nout)
           node == Closure("TypedSource", name, EmptyMap, FuturesMap(output_keys, aprom),
                           TypedPromises(b, nout), aprom,
                           [NoOp EXCEPT !.ret = values, !.nout = nout], <<>>)
       IN IF AddNodeErr(b, node) # "" THEN Throw(b, AddNodeErr(b, node))
          ELSE Ok(AddNode(Alloc(b, 2 * nout), node))

(***************************************************************************)
(* GraphBuilder::get_typed_input_impl<T>(node_name, key): the adapter task *)
(* that extracts T from the source's any-future into a fresh typed promise.*)
(***************************************************************************)
AdapterKey(node_name, key) == node_name \o "::" \o key

GetTypedInputErr(b, node_name, key) ==
  IF node_name \notin DOMAIN b.nodes_ THEN "Source node not found"
  ELSE IF GetOutputErr(b, node_name, key) # "" THEN GetOutputErr(b, node_name, key)
  ELSE IF node_name \notin DOMAIN b.tasks_ THEN "Source node task not found"
  ELSE ""

GetTypedInput(b, node_name, key, T) ==
  LET any_fut == GetOutput(b, node_name, key)
      b1 == Alloc(b, 1)
      p_typed == Len(b1.heap)
      w == Closure("Adapter", node_name \o "_to_" \o key \o "_adapter",
                   <<any_fut>>, EmptyMap, <<p_typed>>, <<>>,
                   [NoOp EXCEPT !.T = T], <<<<node_name, key>>>>)
      b2 == Emplace(b1, TfNode(w.name, "static", w))
      b3 == Precede(b2, b2.tasks_[node_name], LastTask(b2))
  IN [b3 EXCEPT !.adapter_tasks_ = Put(@, AdapterKey(node_name, key), LastTask(b2))]

\* the pack expansion get_typed_input_impl<Ins>(input_specs[Is]...)... inside
\* std::make_tuple(...): the calls are made in the order `order` (the order of
\* evaluation of function arguments is the compiler's choice)
RECURSIVE TypedInputsFrom(_, _, _, _, _, _)
TypedInputsFrom(b, input_specs, Ins, order, n, futs) ==
  IF n > Len(order) THEN [b |-> b, err |-> "", futs |-> futs]
  ELSE LET i == order[n]
           src == input_specs[i][1]
           key == input_specs[i][2]
       IN IF GetTypedInputErr(b, src, key) # ""
          THEN [b |-> b, err |-> GetTypedInputErr(b, src, key), futs |-> futs]
          ELSE LET b1 == GetTypedInput(b, src, key, Ins[i])
               IN TypedInputsFrom(b1, input_specs, Ins, order, n + 1,
                                  [futs EXCEPT ![i] = Len(b1.heap)])

\* "Auto-register dependencies: prefer adapter->target; otherwise source->target"
RECURSIVE TypedAutoRegisterFrom(_, _, _, _)
TypedAutoRegisterFrom(b, input_specs, task, i) ==
  IF i > Len(input_specs) THEN b
  ELSE LET src == input_specs[i][1]
           adapter_key == AdapterKey(src, input_specs[i][2])
           b1 == IF adapter_key \in DOMAIN b.adapter_tasks_
                 THEN Precede(b, b.adapter_tasks_[adapter_key], task)
                 ELSE IF src \in DOMAIN b.tasks_ THEN Precede(b, b.tasks_[src], task)
                 ELSE b
       IN TypedAutoRegisterFrom(b1, input_specs, task, i + 1)

(***************************************************************************)
(* GraphBuilder::create_typed_node<Ins...>(name, input_specs, functor,     *)
(* output_keys) with create_typed_node_impl.  op.nout is the size of the   *)
(* tuple the functor returns.                                              *)
(***************************************************************************)
CreateTypedNodeImpl(r, name, input_specs, op, output_keys) ==
  IF r.err # "" THEN Throw(r.b, r.err)
  ELSE IF TypedOutputsErr(output_keys, op.nout) # ""
  THEN Throw(r.b, TypedOutputsErr(output_keys, op.nout))
  ELSE Bind(Closure("TypedNode", name, r.futs,
                    FuturesMap(output_keys, TypedAnyPromises(r.b, op.nout)),
                    TypedPromises(r.b, op.nout), TypedAnyPromises(r.b, op.nout),
                    op, input_specs),
         LAMBDA node :
           IF AddNodeErr(r.b, node) # "" THEN Throw(r.b, AddNodeErr(r.b, node))
           ELSE Bind(AddNode(Alloc(r.b, 2 * op.nout), node),
                  LAMBDA b1 : Ok(TypedAutoRegisterFrom(b1, input_specs, LastTask(b1), 1))))

CreateTypedNode(b, name, input_specs, Ins, op, output_keys, order) ==
  IF Len(input_specs) # Len(Ins)
  THEN Throw(b, "Number of input specifications must match number of input types")
  ELSE Bind(TypedInputsFrom(b, input_specs, Ins, order, 1,
                            [i \in DOMAIN input_specs |-> 0]),
         LAMBDA r : CreateTypedNodeImpl(r, name, input_specs, op, output_keys))


(***************************************************************************)
(* GraphBuilder::create_subtask(name, builder_fn): a plain task that, each *)
(* time it executes, builds a fresh nested builder and co-runs it.         *)
(***************************************************************************)
CreateSubtask(b, name, op) ==
  LET w == Closure("Subtask", name, EmptyMap, EmptyMap, <<>>, <<>>, op, <<>>)
  IN Ok(Emplace(b, TfNode(name, "static", w)))

\* the builder_fn of the subtask loop body of loop_only.cpp, called on the
\* builder `nested`: a typed source of the counter, a typed node over it and a
\* sink of the node's result; the first creation that throws ends it.  The
\* builder_fn "subtask" makes one subtask Inner with that body in `nested`.
BodyBuilder(op, nested, c) ==
  IF op.body = "subtask"
  THEN CreateSubtask(nested, "Inner", [NoOp EXCEPT !.body = "counter+1"])
  ELSE IF op.body # "counter+1" THEN Ok(nested)
  ELSE Bind(CreateTypedSource(nested, "loop_trigger", <<Val("int", c % ValMod)>>,
                              <<"trigger">>),
         LAMBDA r1 :
           IF r1.err # "" THEN r1
           ELSE Bind(CreateTypedNode(r1.b, "loop_iteration",
                                     <<<<"loop_trigger", "trigger">>>>, <<"int">>,
                                     [NoOp EXCEPT !.nout = 1], <<"result">>, <<1>>),
                  LAMBDA r2 :
                    IF r2.err # "" THEN r2
                    ELSE CreateAnySink(r2.b, "loop_complete",
                                       <<<<"loop_iteration", "result">>>>)))

\* the callable of a composed_of task: the nested builder it runs is the one
\* its creation retained
ModuleClosure(name, op, nested) ==
  [type |-> "Module", name |-> name, fin |-> EmptyMap, out |-> EmptyMap, tprom |-> <<>>,
   aprom |-> <<>>, op |-> op, specs |-> <<>>, nested |-> nested]

(***************************************************************************)
(* GraphBuilder::create_subgraph(name, builder_fn): the nested builder is  *)
(* built here, composed into the graph as one module task and retained in  *)
(* subgraph_builders_.  Neither nodes_ nor tasks_ gets an entry.           *)
(***************************************************************************)
CreateSubgraph(b, name, op) ==
  Bind(BodyBuilder(op, EmptyBuilder, 0),
    LAMBDA built :
      IF built.err # "" THEN Throw(b, built.err)
      ELSE LET w == ModuleClosure(name, op, built.b)
               b1 == Emplace(b, TfNode(name, "module", w))
           IN Ok([b1 EXCEPT !.subgraph_builders_ = @ + 1]))

(***************************************************************************)
(* GraphBuilder::create_subgraph(name, input_specs, builder_fn,            *)
(* output_keys): the nested builder is built here from placeholder inputs  *)
(* and composed as a module task.  The AnyNode wrapper that owns the       *)
(* output promises is registered under the name, but the task emplaced is  *)
(* the module, so no task of the graph runs the wrapper's functor.  The    *)
(* registration is by nodes_[name] = node, without a look-up.              *)
(***************************************************************************)
CreateSubgraphKeyed(b, name, input_specs, op, output_keys) ==
  IF InputFuturesErr(b, input_specs) # "" THEN Throw(b, InputFuturesErr(b, input_specs))
  ELSE LET node == Closure("AnyNode", name, InputFutures(b, input_specs),
                           AnyOutputs(b, output_keys), <<>>, <<>>,
                           [NoOp EXCEPT !.keys = output_keys], input_specs)
           w == ModuleClosure(name, op, BodyBuilder(op, EmptyBuilder, 0).b)
           b1 == Emplace(Alloc(b, Cardinality(output_keys)), TfNode(name, "module", w))
           task == LastTask(b1)
           b2 == [b1 EXCEPT !.subgraph_builders_ = @ + 1]
           b3 == AutoRegister(b2, input_specs, task)
       IN Ok([b3 EXCEPT !.nodes_ = Put(@, name, node),
                        !.tasks_ = Put(@, name, task)])

(***************************************************************************)
(* GraphBuilder::create_pipeline_node(name, num_lines, pipes...): the      *)
(* pipeline is composed as a module task and a PipelineNode registered by  *)
(* nodes_[name] = node, without a look-up.                                 *)
(***************************************************************************)
CreatePipelineNode(b, name) ==
  LET node == Closure("PipelineNode", name, EmptyMap, EmptyMap, <<>>, <<>>, NoOp, <<>>)
      b1 == Emplace(b, TfNode(name, "module", node))
  IN Ok([b1 EXCEPT !.nodes_ = Put(@, name, node),
                   !.tasks_ = Put(@, name, LastTask(b1))])

(***************************************************************************)
(* GraphBuilder::create_subtask(name, input_specs, builder_fn,             *)
(* output_keys): an AnyNode added with add_any_node whose functor builds   *)
(* and co-runs a fresh nested builder when the task executes.              *)
(***************************************************************************)
CreateSubtaskKeyed(b, name, input_specs, op, output_keys) ==
  IF InputFuturesErr(b, input_specs) # "" THEN Throw(b, InputFuturesErr(b, input_specs))
  ELSE LET node == Closure("SubtaskNode", name, InputFutures(b, input_specs),
                           AnyOutputs(b, output_keys), <<>>, <<>>, op, input_specs)
       IN IF AddNodeErr(b, node) # "" THEN Throw(b, AddNodeErr(b, node))
          ELSE LET b1 == AddNode(Alloc(b, Cardinality(output_keys)), node)
               IN Ok(AutoRegister(b1, input_specs, LastTask(b1)))

\* the successors wired last to first
RECURSIVE WireSuccessorsBackwards(_, _, _, _)
WireSuccessorsBackwards(b, task, successors, i) ==
  IF i > Len(successors) THEN b
  ELSE WireSuccessorsBackwards(Precede(b, task, successors[Len(successors) + 1 - i]),
                               task, successors, i + 1)

\* "Wire successors explicitly": cond_task.precede(s) for s in successors
RECURSIVE WireSuccessors(_, _, _, _)
WireSuccessors(b, task, successors, i) ==
  IF i > Len(successors) THEN b
  ELSE WireSuccessors(Precede(b, task, successors[i]), task, successors, i + 1)

(***************************************************************************)
(* GraphBuilder::create_condition_decl and create_multi_condition_decl:    *)
(* the two differ in the node type and in the kind of task emplaced.       *)
(***************************************************************************)
\* the node registered before its input specs are resolved
CreateConditionRegisterFirst(b, type, kind, name, input_specs, op, successors, output_keys) ==
  LET node == Closure(type, name, EmptyMap, AnyOutputs(b, output_keys), <<>>, <<>>,
                      op, input_specs)
      b1 == Emplace(Alloc(b, Cardinality(output_keys)), TfNode(name, kind, node))
      b2 == [b1 EXCEPT !.nodes_ = Put(@, name, node),
                       !.tasks_ = Put(@, name, LastTask(b1))]
  IN IF InputFuturesErr(b, input_specs) # "" THEN Throw(b2, InputFuturesErr(b, input_specs))
     ELSE Ok(WireSuccessors(AutoRegister(b2, input_specs, LastTask(b1)),
                            LastTask(b1), successors, 1))

CreateCondition(b, type, kind, name, input_specs, op, successors, output_keys) ==
  IF InputFuturesErr(b, input_specs) # "" THEN Throw(b, InputFuturesErr(b, input_specs))
  ELSE LET node == Closure(type, name, InputFutures(b, input_specs),
                           AnyOutputs(b, output_keys), <<>>, <<>>, op, input_specs)
           b1 == Emplace(Alloc(b, Cardinality(output_keys)), TfNode(name, kind, node))
           cond_task == LastTask(b1)
           b2 == [b1 EXCEPT !.nodes_ = Put(@, name, node),
                            !.tasks_ = Put(@, name, cond_task)]
           b3 == AutoRegister(b2, input_specs, cond_task)
       IN Ok(WireSuccessors(b3, cond_task, successors, 1))

CreateConditionDecl(b, name, input_specs, op, successors, output_keys) ==
  CreateCondition(b, "ConditionNode", "condition", name, input_specs, op,
                  successors, output_keys)

CreateMultiConditionDecl(b, name, input_specs, op, successors, output_keys) ==
  CreateCondition(b, "MultiConditionNode", "multi_condition", name, input_specs, op,
                  successors, output_keys)

(***************************************************************************)
(* The loop wiring of create_loop_decl: body -> cond, then                 *)
(* cond.precede(body, exit): successor 0 of cond is the body, successor 1  *)
(* the exit task (0 stands for the empty tf::Task{}).                      *)
(***************************************************************************)
\* the successors of the condition in the other order: cond.precede(exit, body)
WireLoopExitFirst(b, body_task, cond_task, exit_task) ==
  Precede(Precede(Precede(b, body_task, cond_task), cond_task, exit_task),
          cond_task, body_task)

\* the exit wired after the body as well: body.precede(cond, exit)
WireLoopBodyToExit(b, body_task, cond_task, exit_task) ==
  Precede(Precede(Precede(Precede(b, body_task, cond_task), body_task, exit_task),
                  cond_task, body_task),
          cond_task, exit_task)

WireLoop(b, body_task, cond_task, exit_task) ==
  Precede(Precede(Precede(b, body_task, cond_task), cond_task, body_task),
          cond_task, exit_task)

\* initial dependencies wired to the condition instead: the task the body
\* precedes is started by the named tasks, as in a while loop
RECURSIVE LoopDependsOnCondition(_, _, _, _)
LoopDependsOnCondition(b, names, body_task, i) ==
  IF i > Len(names) THEN b
  ELSE LET b1 == IF names[i] \in DOMAIN b.tasks_ /\ b.tasks_[names[i]] # body_task
                 THEN Precede(b, b.tasks_[names[i]], b.taskflow_[body_task].succ[1]) ELSE b
       IN LoopDependsOnCondition(b1, names, body_task, i + 1)

\* initial dependencies: every named task that is registered and is not the body
RECURSIVE LoopDependsFrom(_, _, _, _)
LoopDependsFrom(b, names, body_task, i) ==
  IF i > Len(names) THEN b
  ELSE LET b1 == IF names[i] \in DOMAIN b.tasks_ /\ b.tasks_[names[i]] # body_task
                 THEN Precede(b, b.tasks_[names[i]], body_task) ELSE b
       IN LoopDependsFrom(b1, names, body_task, i + 1)

(***************************************************************************)
(* GraphBuilder::create_loop_decl(name, input_specs, body_builder_fn,      *)
(* condition_func, exit_builder_fn, output_keys)                           *)
(***************************************************************************)
CreateLoopDecl(b, name, input_specs, op, has_exit, output_keys) ==
  IF InputFuturesErr(b, input_specs) # "" THEN Throw(b, InputFuturesErr(b, input_specs))
  ELSE LET fin == InputFutures(b, input_specs)
           node == Closure("LoopNode", name, fin, AnyOutputs(b, output_keys),
                           <<>>, <<>>, op, input_specs)
           b1 == Emplace(Alloc(b, Cardinality(output_keys)),
                         TfNode(name \o "_body", "static",
                                [node EXCEPT !.type = "LoopBody", !.out = EmptyMap]))
           body_task == LastTask(b1)
           b2 == [b1 EXCEPT !.tasks_ = Put(@, name \o "_body", body_task)]
           b3 == IF has_exit
                 THEN Emplace(b2, TfNode(name \o "_exit", "static",
                                [node EXCEPT !.type = "LoopExit", !.out = EmptyMap]))
                 ELSE b2
           exit_task == IF has_exit THEN LastTask(b3) ELSE 0
           b4 == Emplace(b3, TfNode(name \o "_condition", "condition",
                                [node EXCEPT !.type = "LoopCond"]))
           cond_task == LastTask(b4)
           b5 == WireLoop(b4, body_task, cond_task, exit_task)
           b6 == LoopDependsFrom(b5, [i \in DOMAIN input_specs |-> input_specs[i][1]],
                                 body_task, 1)
       IN Ok([b6 EXCEPT !.nodes_ = Put(@, name, node),
                        !.tasks_ = Put(@, name, body_task)])

(***************************************************************************)
(* GraphBuilder::create_loop_decl(name, depend_on_nodes, body_task,        *)
(* condition_func, exit_task): the loop around an existing body task.      *)
(***************************************************************************)
CreateLoopDeclTask(b, name, depend_on_nodes, body_task, op, exit_task) ==
  LET w == Closure("LoopCondTask", name, EmptyMap, EmptyMap, <<>>, <<>>, op, <<>>)
      b1 == Emplace(b, TfNode(name, "condition", w))
      cond_task == LastTask(b1)
      b2 == WireLoop(b1, body_task, cond_task, exit_task)
      b3 == [b2 EXCEPT !.tasks_ = Put(@, name, cond_task)]
  IN Ok(LoopDependsFrom(b3, depend_on_nodes, body_task, 1))


\* set_value on a cell that can be assigned again
SetValueAgain(h, p, v) ==
  [ok |-> TRUE, heap |-> [h EXCEPT ![p] = [set |-> TRUE, val |-> v, exc |-> FALSE]]]

(***************************************************************************)
(* std::promise::set_value as the functors call it: the first call stores  *)
(* the value, a later call throws std::future_error and stores nothing.    *)
(***************************************************************************)
SetValue(h, p, v) ==
  IF h[p].set THEN [ok |-> FALSE, heap |-> h]
  ELSE [ok |-> TRUE, heap |-> [h EXCEPT ![p] = [set |-> TRUE, val |-> v, exc |-> FALSE]]]

\* std::promise::set_exception
SetException(h, p) ==
  IF h[p].set THEN [ok |-> FALSE, heap |-> h]
  ELSE [ok |-> TRUE,
        heap |-> [h EXCEPT ![p] = [set |-> TRUE, val |-> Val("none", 0), exc |-> TRUE]]]

\* a run of set_value calls, ws[i] = <<promise, value>>, that the first exception
\* ends; promise 0 stands for a key promises.find() does not find
RECURSIVE WriteSeq(_, _, _)
WriteSeq(h, ws, i) ==
  IF i > Len(ws) THEN [ok |-> TRUE, heap |-> h]
  ELSE IF ws[i][1] = 0 THEN [ok |-> FALSE, heap |-> h]
  ELSE LET r == SetValue(h, ws[i][1], ws[i][2])
       IN IF r.ok THEN WriteSeq(r.heap, ws, i + 1) ELSE r

Perms(S) ==
  {s \in [1..Cardinality(S) -> S] : \A i, j \in 1..Cardinality(S) : i # j => s[i] # s[j]}

\* a get() that gives up instead of waiting
WaitsWithTimeout(w, h) == FALSE

\* a future.get() that returns although the promise is not set
NeverBlocked(w, h) == FALSE

(***************************************************************************)
(* What the task lambdas do when invoked.  Every future.get() of a lambda  *)
(* must return before it computes: the invocation is blocked until then.   *)
(***************************************************************************)
Blocked(w, h) == \E k \in DOMAIN w.fin : ~h[w.fin[k]].set

\* in_vals[key] = fut.get() for every captured future
InVals(w, h) == [k \in DOMAIN w.fin |-> h[w.fin[k]].val]

\* a captured typed future whose get() rethrows the stored exception
InputThrows(w, h) == \E k \in DOMAIN w.fin : h[w.fin[k]].exc

\* the user's transform: every output is 1 + the sum of the inputs
UserFn(in_vals) ==
  Val("int", (1 + SumOver([k \in DOMAIN in_vals |-> in_vals[k].v], DOMAIN in_vals)) % ValMod)

\* the user's typed transform returns a tuple: element i is i + the sum of the
\* inputs, so that the elements differ and element 1 is UserFn
UserFnAt(in_vals, i) ==
  Val("int", (i + SumOver([k \in DOMAIN in_vals |-> in_vals[k].v], DOMAIN in_vals)) % ValMod)

\* the loop predicate of the examples: 0 while counter < bound, else op.stop
Predicate(op, c) == IF c < op.bound THEN 0 ELSE op.stop

\* what the nested graph a body builder builds does to the captured counter
BodyEffect(op, in_vals, c) ==
  IF op.body = "counter+1" THEN c + 1
  ELSE IF op.body = "input+1" THEN in_vals["input"].v + 1
  ELSE c

\* how an invocation ends: normally or by an exception (ok), the promises and
\* the counter it leaves, whether the user's compute step was called and with
\* which input mapping,
\* the indices a condition returns, the nested builders it retained
Outcome(ok, h, c, called, in_vals, ret, nsub) ==
  [ok |-> ok, heap |-> h, counter |-> c, called |-> called, seen |-> in_vals,
   ret |-> ret, nsub |-> nsub]

\* AnySource::functor
ExecAnySource(w, h, c, order) ==
  LET r == WriteSeq(h, [i \in DOMAIN order |-> <<w.out[order[i]], w.op.vals[order[i]]>>], 1)
  IN Outcome(r.ok, r.heap, c, FALSE, EmptyMap, <<>>, 0)

\* AnyNode::functor: out_vals = fn(in_vals) has the keys op.keys
ExecAnyNode(w, h, c, order) ==
  LET in_vals == InVals(w, h)
      r == WriteSeq(h, [i \in DOMAIN order |->
                          <<IF order[i] \in DOMAIN w.out THEN w.out[order[i]] ELSE 0,
                            UserFn(in_vals)>>], 1)
  IN Outcome(r.ok, r.heap, c, TRUE, in_vals, <<>>, 0)

\* a sink that calls its callback without the values it collected
ExecAnySinkEmpty(w, h, c) == Outcome(TRUE, h, c, TRUE, EmptyMap, <<>>, 0)

\* AnySink::functor
ExecAnySink(w, h, c) == Outcome(TRUE, h, c, TRUE, InVals(w, h), <<>>, 0)

\* TypedSource::functor: per index the typed promise, then the any-promise
ExecTypedSource(w, h, c) ==
  LET r == WriteSeq(h, [j \in 1..(2 * w.op.nout) |->
                          LET i == (j + 1) \div 2 IN
                          <<IF j % 2 = 1 THEN w.tprom[i] ELSE w.aprom[i], w.op.ret[i]>>], 1)
  IN Outcome(r.ok, r.heap, c, FALSE, EmptyMap, <<>>, 0)

\* TypedNode::functor
ExecTypedNode(w, h, c) ==
  IF InputThrows(w, h) THEN Outcome(FALSE, h, c, FALSE, EmptyMap, <<>>, 0)
  ELSE LET in_vals == InVals(w, h)
           r == WriteSeq(h, [j \in 1..(2 * w.op.nout) |->
                               LET i == (j + 1) \div 2 IN
                               <<IF j % 2 = 1 THEN w.tprom[i] ELSE w.aprom[i],
                                 UserFnAt(in_vals, i)>>], 1)
       IN Outcome(r.ok, r.heap, c, TRUE, in_vals, <<>>, 0)

\* an adapter that hands the value on without looking at its dynamic type
ExecAdapterUnchecked(w, h, c) ==
  LET r == SetValue(h, w.tprom[1], h[w.fin[1]].val)
  IN Outcome(r.ok, r.heap, c, FALSE, InVals(w, h), <<>>, 0)

\* the adapter lambda of get_typed_input_impl<T>: a bad_any_cast is caught and
\* stored in the typed promise, so the lambda itself returns normally
ExecAdapter(w, h, c) ==
  LET value == h[w.fin[1]].val
      r == IF value.type = w.op.T THEN SetValue(h, w.tprom[1], value)
           ELSE SetException(h, w.tprom[1])
  IN Outcome(r.ok, r.heap, c, FALSE, InVals(w, h), <<>>, 0)

\* a cond_task lambda that hands the executor the first returned index only
ExecConditionFirstIndex(w, h, c) ==
  LET in_vals == InVals(w, h)
      result == w.op.ret
      stored == IF w.type = "ConditionNode" THEN Val("int", result[1])
                ELSE Val("vector", result)
      r == IF "result" \in DOMAIN w.out THEN SetValue(h, w.out["result"], stored)
           ELSE [ok |-> TRUE, heap |-> h]
  IN Outcome(r.ok, r.heap, c, TRUE, in_vals,
             IF r.ok /\ result # <<>> THEN <<result[1]>> ELSE <<>>, 0)

\* a cond_task lambda that folds the predicate's result into 0..1 before it
\* stores and returns it
ExecConditionWrapped(w, h, c) ==
  LET in_vals == InVals(w, h)
      result == [i \in DOMAIN w.op.ret |-> w.op.ret[i] % 2]
      stored == IF w.type = "ConditionNode" THEN Val("int", result[1])
                ELSE Val("vector", result)
      r == IF "result" \in DOMAIN w.out THEN SetValue(h, w.out["result"], stored)
           ELSE [ok |-> TRUE, heap |-> h]
  IN Outcome(r.ok, r.heap, c, TRUE, in_vals, IF r.ok THEN result ELSE <<>>, 0)

\* the cond_task lambdas of create_condition_decl / create_multi_condition_decl
ExecCondition(w, h, c) ==
  LET in_vals == InVals(w, h)
      result == w.op.ret
      stored == IF w.type = "ConditionNode" THEN Val("int", result[1])
                ELSE Val("vector", result)
      r == IF "result" \in DOMAIN w.out THEN SetValue(h, w.out["result"], stored)
           ELSE [ok |-> TRUE, heap |-> h]
  IN Outcome(r.ok, r.heap, c, TRUE, in_vals, IF r.ok THEN result ELSE <<>>, 0)

\* a body_task lambda that hands the body builder the counter the previous
\* iteration left instead of the values of the loop's input channels
ExecLoopBodyFedBack(w, b, c) ==
  IF ~b.executor_ THEN Outcome(FALSE, b.heap, c, FALSE, EmptyMap, <<>>, 0)
  ELSE Bind([k \in DOMAIN w.fin |-> Val("int", c % ValMod)],
         LAMBDA in_vals :
           Outcome(TRUE, b.heap, BodyEffect(w.op, in_vals, c), TRUE, in_vals, <<>>, 1))

\* the body_task lambda of create_loop_decl: a fresh nested builder is built
\* from in_vals, co-run to completion and appended to subgraph_builders_
ExecLoopBody(w, b, c) ==
  IF ~b.executor_ THEN Outcome(FALSE, b.heap, c, FALSE, EmptyMap, <<>>, 0)
  ELSE LET in_vals == InVals(w, b.heap)
       IN Outcome(TRUE, b.heap, BodyEffect(w.op, in_vals, c), TRUE, in_vals, <<>>, 1)

\* the exit_task lambda of create_loop_decl
ExecLoopExit(w, b, c) ==
  IF ~b.executor_ THEN Outcome(FALSE, b.heap, c, FALSE, EmptyMap, <<>>, 0)
  ELSE Outcome(TRUE, b.heap, c, TRUE, InVals(w, b.heap), <<>>, 1)

\* the cond_task lambda of create_loop_decl
ExecLoopCond(w, h, c) ==
  LET in_vals == InVals(w, h)
      result == Predicate(w.op, c)
      r == IF "result" \in DOMAIN w.out THEN SetValue(h, w.out["result"], Val("int", result))
           ELSE [ok |-> TRUE, heap |-> h]
  IN Outcome(r.ok, r.heap, c, TRUE, in_vals, IF r.ok THEN <<result>> ELSE <<>>, 0)

\* the condition_func the body_task overload of create_loop_decl emplaces
ExecLoopCondTask(w, h, c) == Outcome(TRUE, h, c, TRUE, EmptyMap, <<Predicate(w.op, c)>>, 0)

RECURSIVE ExecSubtask(_, _, _)

\* the invocation of a task of the nested builder b, which holds dataflow
\* nodes and subtasks; a subtask lambda reads the executor_ of the builder
\* that made it
ExecNested(w, b, c) ==
  CASE w.type = "AnySource" ->
         ExecAnySource(w, b.heap, c, CHOOSE o \in Perms(DOMAIN w.op.vals) : TRUE)
    [] w.type = "AnyNode" -> ExecAnyNode(w, b.heap, c, CHOOSE o \in Perms(w.op.keys) : TRUE)
    [] w.type = "AnySink" -> ExecAnySink(w, b.heap, c)
    [] w.type = "TypedSource" -> ExecTypedSource(w, b.heap, c)
    [] w.type = "TypedNode" -> ExecTypedNode(w, b.heap, c)
    [] w.type = "Subtask" -> ExecSubtask(w, b, c)
    [] OTHER -> ExecAdapter(w, b.heap, c)

\* tf::Executor::corun(nested.taskflow()): the calling worker stays in the call
\* until no task of the nested graph is left to run; a task runs once all its
\* dependents have finished; failed holds the tasks whose callable threw
RECURSIVE CoRunFrom(_, _, _, _)
CoRunFrom(nested, c, done, failed) ==
  LET g == nested.taskflow_
      ready == {t \in DOMAIN g \ done :
                  /\ \A u \in DOMAIN g : t \in Range(g[u].succ) => u \in done
                  /\ ~Blocked(g[t].w, nested.heap)}
  IN IF ready = {} THEN [b |-> nested, done |-> done, failed |-> failed]
     ELSE LET t == CHOOSE x \in ready : \A y \in ready : x <= y
              o == ExecNested(g[t].w, nested, c)
          IN Bind(<<[nested EXCEPT !.heap = o.heap], done \cup {t},
                    IF o.ok THEN failed ELSE failed \cup {t}>>,
                  LAMBDA a : CoRunFrom(a[1], c, a[2], a[3]))

CoRun(nested, c) == CoRunFrom(nested, c, {}, {})

\* what an invocation of a subtask lambda met: the nodes and channels of the
\* nested builder when builder_fn was entered, the tasks builder_fn made and
\* the tasks that had finished when corun returned, and how many of them threw
NestedReport(entry, built, ran) ==
  [nodes |-> Val("int", Cardinality(DOMAIN entry.nodes_)),
   channels |-> Val("int", Len(entry.heap)),
   tasks |-> Val("int", Len(built.taskflow_)),
   finished |-> Val("int", Cardinality(ran.done)),
   failed |-> Val("int", Cardinality(ran.failed))]

\* a subtask lambda that keeps one nested builder for all its invocations: a
\* later invocation calls builder_fn on what the earlier one left
ExecSubtaskReusedBuilder(w, b, c) ==
  IF ~b.executor_ THEN Outcome(FALSE, b.heap, c, FALSE, EmptyMap, <<>>, 0)
  ELSE Bind(IF c = 0 THEN EmptyBuilder ELSE BodyBuilder(w.op, EmptyBuilder, c - 1).b,
         LAMBDA nested :
           Bind(BodyBuilder(w.op, nested, c),
             LAMBDA built :
               IF built.err # "" THEN Outcome(FALSE, b.heap, c, FALSE, EmptyMap, <<>>, 0)
               ELSE Bind(CoRun(built.b, c),
                      LAMBDA ran :
                        Outcome(ran.failed = {}, b.heap, BodyEffect(w.op, EmptyMap, c), TRUE,
                                NestedReport(nested, built.b, ran), <<>>, 0))))

\* the lambda of create_subtask: GraphBuilder nested{name}; builder_fn(nested);
\* executor_->corun(nested.taskflow()), which rethrows what a nested task threw
ExecSubtask(w, b, c) ==
  IF ~b.executor_ THEN Outcome(FALSE, b.heap, c, FALSE, EmptyMap, <<>>, 0)
  ELSE Bind(EmptyBuilder,
         LAMBDA nested :
           Bind(BodyBuilder(w.op, nested, c),
             LAMBDA built :
               IF built.err # "" THEN Outcome(FALSE, b.heap, c, FALSE, EmptyMap, <<>>, 0)
               ELSE Bind(CoRun(built.b, c),
                      LAMBDA ran :
                        Outcome(ran.failed = {}, b.heap, BodyEffect(w.op, EmptyMap, c), TRUE,
                                NestedReport(nested, built.b, ran), <<>>, 0))))

\* AnyNode::functor around the lambda of the keyed create_subtask: the lambda
\* co-runs a fresh nested builder and returns an empty any for every output key
ExecSubtaskNode(w, b, c, order) ==
  LET in_vals == InVals(w, b.heap)
  IN IF ~b.executor_ THEN Outcome(FALSE, b.heap, c, TRUE, in_vals, <<>>, 0)
     ELSE LET r == WriteSeq(b.heap, [i \in DOMAIN order |->
                                       <<w.out[order[i]], Val("empty", 0)>>], 1)
          IN Outcome(r.ok, r.heap, BodyEffect(w.op, in_vals, c), TRUE, in_vals, <<>>, 0)

\* what an execution of a composed graph met: the tasks of the nested graph,
\* the tasks that had finished when it returned, how many of them threw and
\* the value its loop_trigger source emitted
ModuleReport(nested, ran) ==
  [tasks |-> Val("int", Len(nested.taskflow_)),
   finished |-> Val("int", Cardinality(ran.done)),
   failed |-> Val("int", Cardinality(ran.failed)),
   trigger |-> IF "loop_trigger" \in DOMAIN ran.b.nodes_
               THEN ran.b.heap[ran.b.nodes_["loop_trigger"].out["trigger"]].val
               ELSE Val("empty", 0)]

\* a composed graph that is built again each time it executes
ExecModuleRebuilt(w, h, c) == Bind(BodyBuilder(w.op, EmptyBuilder, c).b, LAMBDA nested : Bind(CoRun(nested, c), LAMBDA ran : Outcome(ran.failed = {}, h, c, TRUE, ModuleReport(nested, ran), <<>>, 0)))

\* a module task (composed_of): the nested graph built at construction runs
ExecModule(w, h, c) ==
  Bind(CoRun(w.nested, c),
    LAMBDA ran : Outcome(ran.failed = {}, h, c, TRUE, ModuleReport(w.nested, ran), <<>>, 0))

\* the nested builder a module task leaves: its channels keep what the
\* execution wrote
After(w, c) ==
  IF w.type = "Module" THEN [w EXCEPT !.nested = CoRun(w.nested, c).b] ELSE w

\* a composed pipeline (tf::Pipeline) runs its pipes
ExecPipeline(w, h, c) == Outcome(TRUE, h, c, TRUE, EmptyMap, <<>>, 0)

\* the invocation of task closure w; order is the iteration order of the
\* unordered_map the functor walks when it sets its promises
Exec(w, b, c, order) ==
  CASE w.type = "AnySource" -> ExecAnySource(w, b.heap, c, order)
    [] w.type = "AnyNode" -> ExecAnyNode(w, b.heap, c, order)
    [] w.type = "AnySink" -> ExecAnySink(w, b.heap, c)
    [] w.type = "TypedSource" -> ExecTypedSource(w, b.heap, c)
    [] w.type = "TypedNode" -> ExecTypedNode(w, b.heap, c)
    [] w.type = "Adapter" -> ExecAdapter(w, b.heap, c)
    [] w.type \in {"ConditionNode", "MultiConditionNode"} -> ExecCondition(w, b.heap, c)
    [] w.type = "LoopBody" -> ExecLoopBody(w, b, c)
    [] w.type = "LoopExit" -> ExecLoopExit(w, b, c)
    [] w.type = "LoopCond" -> ExecLoopCond(w, b.heap, c)
    [] w.type = "LoopCondTask" -> ExecLoopCondTask(w, b.heap, c)
    [] w.type = "Subtask" -> ExecSubtask(w, b, c)
    [] w.type = "SubtaskNode" -> ExecSubtaskNode(w, b, c, order)
    [] w.type = "Module" -> ExecModule(w, b.heap, c)
    [] OTHER -> ExecPipeline(w, b.heap, c)

WriteOrders(w) ==
  IF w.type = "AnySource" THEN Perms(DOMAIN w.op.vals)
  ELSE IF w.type = "AnyNode" THEN Perms(w.op.keys)
  ELSE IF w.type = "SubtaskNode" THEN Perms(DOMAIN w.out)
  ELSE {<<>>}


(***************************************************************************)
(* The executor (tf::Executor), as GraphBuilder::run uses it: a task with  *)
(* no dependent starts the run; a task that ends releases its successors;  *)
(* a condition task schedules the successor whose 0-based index it returns *)
(* and nothing else; a task whose callable throws returns nothing.         *)
(***************************************************************************)
Tasks == DOMAIN gb.taskflow_

IsCondition(g, t) == g[t].kind \in {"condition", "multi_condition"}

Occurrences(seq, x) == Cardinality({i \in DOMAIN seq : seq[i] = x})

NumDependents(g, t) ==
  SumOver([u \in DOMAIN g |-> Occurrences(g[u].succ, t)], DOMAIN g)

NumStrongDependents(g, t) ==
  SumOver([u \in DOMAIN g |-> IF IsCondition(g, u) THEN 0 ELSE Occurrences(g[u].succ, t)],
          DOMAIN g)

\* a finished non-condition task decrements the join counter of each successor
\* and schedules the ones that reach zero; an empty handle among them is skipped
RECURSIVE ReleaseFrom(_, _, _)
ReleaseFrom(succ, i, sch) ==
  IF i > Len(succ) THEN sch
  ELSE LET s == succ[i]
           sch1 == IF s = 0 THEN sch
                   ELSE [jc |-> [sch.jc EXCEPT ![s] = @ - 1],
                         queued |-> IF sch.jc[s] = 1 THEN [sch.queued EXCEPT ![s] = @ + 1]
                                    ELSE sch.queued]
       IN ReleaseFrom(succ, i + 1, sch1)

\* a finished condition task: for every returned index that names a successor,
\* zero that successor's join counter and schedule it
RECURSIVE BranchFrom(_, _, _, _)
BranchFrom(succ, ret, i, sch) ==
  IF i > Len(ret) THEN sch
  ELSE LET r == ret[i]
           sch1 == IF r >= 0 /\ r < Len(succ) /\ succ[r + 1] # 0
                   THEN [jc |-> [sch.jc EXCEPT ![succ[r + 1]] = 0],
                         queued |-> [sch.queued EXCEPT ![succ[r + 1]] = @ + 1]]
                   ELSE sch
       IN BranchFrom(succ, ret, i + 1, sch1)

Schedule(g, t, o, sch) ==
  IF IsCondition(g, t) THEN BranchFrom(g[t].succ, o.ret, 1, sch)
  ELSE ReleaseFrom(g[t].succ, 1, sch)

(***************************************************************************)
(* GraphBuilder::run / run_async: executor_ = &executor; executor.run().   *)
(***************************************************************************)
Run ==
  /\ phase = "build"
  /\ gb' = [gb EXCEPT !.executor_ = TRUE]
  /\ phase' = "running"
  /\ jc' = [t \in Tasks |-> NumStrongDependents(gb.taskflow_, t)]
  /\ queued' = [t \in Tasks |-> IF NumDependents(gb.taskflow_, t) = 0 THEN 1 ELSE 0]
  /\ active' = [t \in Tasks |-> 0]
  /\ runs' = [t \in Tasks |-> 0]
  /\ fails' = [t \in Tasks |-> 0]
  /\ seen' = [t \in Tasks |-> [n |-> 0, vals |-> EmptyMap]]
  /\ UNCHANGED <<counter, scen, appending, last_call>>

\* a worker takes a scheduled task
Start(t) ==
  /\ phase = "running"
  /\ queued[t] > 0
  /\ SumOver(active, Tasks) < NumWorkers
  /\ runs[t] + fails[t] + active[t] < MaxRuns
  /\ queued' = [queued EXCEPT ![t] = @ - 1]
  /\ active' = [active EXCEPT ![t] = @ + 1]
  /\ UNCHANGED <<gb, phase, jc, runs, fails, seen, counter, scen, appending, last_call>>

\* the invocation of t ends in subgraph_builders_.push_back(std::move(nested)):
\* the body and exit lambdas of create_loop_decl that got past their checks
Appends(t) ==
  /\ gb.taskflow_[t].w.type \in {"LoopBody", "LoopExit"}
  /\ \E order \in WriteOrders(gb.taskflow_[t].w) :
       Exec(gb.taskflow_[t].w, gb, counter, order).nsub > 0

\* the worker has built and co-run the nested graph and enters push_back on
\* the builder's vector; the lambda takes no lock before it
PushBack(t) ==
  /\ phase = "running"
  /\ active[t] > 0
  /\ t \notin appending
  /\ ~Blocked(gb.taskflow_[t].w, gb.heap)
  /\ Appends(t)
  /\ appending' = appending \cup {t}
  /\ UNCHANGED <<gb, phase, jc, queued, active, runs, fails, seen, counter, scen, last_call>>

\* two unsynchronized push_back calls on one std::vector are a data race
Racing == Cardinality(appending) > 1

\* what a push_back leaves in the vector: its element, or, when it raced with
\* another one, possibly nothing (both wrote the same slot)
Retained(t, nsub) == IF t \in appending /\ Racing THEN {0, nsub} ELSE {nsub}

\* the racing push_back calls may also corrupt the vector and end the process
Race ==
  /\ phase = "running"
  /\ Racing
  /\ phase' = "crashed"
  /\ UNCHANGED <<gb, jc, queued, active, runs, fails, seen, counter, scen, appending,
               last_call>>

\* the worker runs the task's callable to its end (it stays blocked while a
\* future it waits for is not ready), then schedules what the task releases
Complete(t) ==
  /\ phase = "running"
  /\ active[t] > 0
  /\ ~Blocked(gb.taskflow_[t].w, gb.heap)
  /\ Appends(t) => t \in appending
  /\ appending' = appending \ {t}
  /\ \E order \in WriteOrders(gb.taskflow_[t].w) :
       LET w == gb.taskflow_[t].w
           o == Exec(w, gb, counter, order)
           sch == Schedule(gb.taskflow_, t, o,
                    [jc |-> [jc EXCEPT ![t] = @ + NumStrongDependents(gb.taskflow_, t)],
                     queued |-> queued])
       IN /\ \E kept \in Retained(t, o.nsub) :
               gb' = [gb EXCEPT !.heap = o.heap, !.subgraph_builders_ = @ + kept,
                                !.taskflow_[t].w = After(w, counter)]
          /\ counter' = o.counter
          /\ seen' = IF o.called THEN [seen EXCEPT ![t] = [n |-> @.n + 1, vals |-> o.seen]]
                      ELSE seen
          /\ runs' = IF o.ok THEN [runs EXCEPT ![t] = @ + 1] ELSE runs
          /\ fails' = IF o.ok THEN fails ELSE [fails EXCEPT ![t] = @ + 1]
          /\ jc' = sch.jc
          /\ queued' = sch.queued
  /\ active' = [active EXCEPT ![t] = @ - 1]
  /\ UNCHANGED <<phase, scen, last_call>>

\* run() returns: nothing is scheduled and nothing executes
Idle == \A t \in Tasks : queued[t] = 0 /\ active[t] = 0

Wait ==
  /\ phase = "running"
  /\ Idle
  /\ phase' = "done"
  /\ UNCHANGED <<gb, jc, queued, active, runs, fails, seen, counter, scen, appending,
               last_call>>


(***************************************************************************)
(* The programs that are run: each builds its graph with the creation      *)
(* operations above, as the examples of workflow/examples do, from         *)
(* parameters drawn from small sets.                                       *)
(***************************************************************************)
IntVal(n) == Val("int", n)

ReturnsKeys(keys) == [NoOp EXCEPT !.keys = keys]

ArgOrder(order, n) == IF order = "ltr" THEN [i \in 1..n |-> i] ELSE [i \in 1..n |-> n + 1 - i]

\* sources A {x, y} and B {x}; a transform C over p.specs whose functor returns
\* the keys p.ret; a second reader D of A.x; a sink H of C.c
FlowProgram(p) ==
  LET b0 == CreateAnySource(EmptyBuilder, "A",
              [k \in {"x", "y"} |-> IF k = "x" THEN IntVal(1) ELSE IntVal(2)]).b
      b1 == CreateAnySource(b0, "B", [k \in {"x"} |-> IntVal(3)]).b
      b2 == IF p.typed
            THEN CreateTypedNode(b1, "C", p.specs, [i \in DOMAIN p.specs |-> p.T],
                                 [NoOp EXCEPT !.nout = 1], <<"c">>,
                                 ArgOrder(p.order, Len(p.specs))).b
            ELSE CreateAnyNode(b1, "C", p.specs, ReturnsKeys(p.ret), {"c"}).b
      b3 == CreateAnyNode(b2, "D", <<<<"A", "x">>>>, ReturnsKeys({"d"}), {"d"}).b
  IN CreateAnySink(b3, "H", <<<<"C", "c">>>>).b

FlowSpecs ==
  { <<<<"A", "x">>>>, <<<<"A", "x">>, <<"A", "y">>>>,
    <<<<"A", "x">>, <<"A", "x">>>>, <<<<"A", "x">>, <<"B", "x">>>> }

\* T is the input type a typed C declares for every input; the sources emit int
FlowParams ==
  [kind : {"flow"}, specs : FlowSpecs, ret : {{"c"}, {}, {"c", "z"}},
   typed : {FALSE}, order : {"ltr"}, T : {"int"}]
  \cup [kind : {"flow"}, specs : FlowSpecs, ret : {{"c"}},
        typed : {TRUE}, order : {"ltr", "rtl"}, T : {"int", "double"}]

\* advanced_control_flow.cpp, examples 1 and 2: a source A, branch subgraphs
\* S0, S1, ... and a (multi-)condition over A.x that returns p.ret
BranchNames == <<"S0", "S1", "S2">>

RECURSIVE CreateBranches(_, _)
CreateBranches(b, n) ==
  IF n = 0 THEN b
  ELSE CreateSubgraph(CreateBranches(b, n - 1), BranchNames[n], NoOp).b

BranchProgram(p) ==
  LET b0 == CreateAnySource(EmptyBuilder, "A", [k \in {"x"} |-> IntVal(1)]).b
      b1 == CreateBranches(b0, p.nsucc)
      successors == [i \in 1..p.nsucc |-> Len(b0.taskflow_) + i]
      b2 == IF p.kind = "cond"
            THEN CreateConditionDecl(b1, "B", <<<<"A", "x">>>>,
                                     [NoOp EXCEPT !.ret = p.ret], successors, p.keys).b
            ELSE CreateMultiConditionDecl(b1, "B", <<<<"A", "x">>>>,
                                          [NoOp EXCEPT !.ret = p.ret], successors, p.keys).b
  IN IF p.reader THEN CreateAnySink(b2, "R", <<<<"B", "result">>>>).b ELSE b2

ReturnedIndex == (0 - 1)..3

\* p.reader adds, after the condition, a sink R that reads its "result"
CondParams ==
  [kind : {"cond"}, nsucc : {2, 3}, ret : {<<i>> : i \in ReturnedIndex},
   keys : {{}, {"result"}}, reader : {FALSE}]
  \cup [kind : {"cond"}, nsucc : {2, 3}, ret : {<<i>> : i \in ReturnedIndex},
        keys : {{"result"}}, reader : {TRUE}]

MultiParams ==
  [kind : {"multi"}, nsucc : {3}, ret : SeqsUpTo(ReturnedIndex, 2),
   keys : {{}, {"result"}}, reader : {FALSE}]

\* loop_only.cpp, the declarative loop: a typed source Input emits the initial
\* counter under "input"; the body graph sets counter := input + 1; the
\* predicate returns 0 while counter < p.bound and p.stop otherwise; p.reader
\* adds a sink that reads the loop's "result"
LoopProgram(p) ==
  LET b0 == CreateTypedSource(EmptyBuilder, "Input", <<IntVal(0)>>, <<"input">>).b
      b1 == CreateLoopDecl(b0, "Loop", <<<<"Input", "input">>>>,
                           [NoOp EXCEPT !.bound = p.bound, !.stop = p.stop,
                                        !.body = "input+1"],
                           TRUE, p.keys).b
  IN IF p.reader THEN CreateAnySink(b1, "R", <<<<"Loop", "result">>>>).b ELSE b1

LoopParams ==
  [kind : {"loop"}, bound : 0..MaxBound, stop : {1, 2}, keys : {{}, {"result"}},
   reader : BOOLEAN]

\* loop_only.cpp, the loop around a create_subtask body that increments the
\* counter, with a create_subgraph exit task, started after Input
LoopTaskProgram(p) ==
  LET b0 == CreateTypedSource(EmptyBuilder, "Input", <<IntVal(0)>>, <<"input">>).b
      b1 == CreateSubtask(b0, "LoopBody", [NoOp EXCEPT !.body = "counter+1"]).b
      body_task == LastTask(b1)
      b2 == CreateSubgraph(b1, "LoopExit", NoOp).b
      exit_task == LastTask(b2)
  IN CreateLoopDeclTask(b2, "Loop", <<"Input">>, body_task,
                        [NoOp EXCEPT !.bound = p.bound, !.stop = p.stop], exit_task).b

LoopTaskParams == [kind : {"looptask"}, bound : 0..MaxBound, stop : {1, 2}]

\* a source A, a nested graph G over A.x that declares the output key g, made
\* with the keyed create_subgraph or the keyed create_subtask, and a sink H of G.g
NestedProgram(p) ==
  LET b0 == CreateAnySource(EmptyBuilder, "A", [k \in {"x"} |-> IntVal(1)]).b
      b1 == IF p.how = "subgraph"
            THEN CreateSubgraphKeyed(b0, "G", <<<<"A", "x">>>>, NoOp, {"g"}).b
            ELSE CreateSubtaskKeyed(b0, "G", <<<<"A", "x">>>>, NoOp, {"g"}).b
  IN CreateAnySink(b1, "H", <<<<"G", "g">>>>).b

NestedParams == [kind : {"nested"}, how : {"subgraph", "subtask"}]

\* a typed source A of the tuple (1, 2) under the keys p.keys and a typed
\* transform C over the first of them that returns a pair under the keys p.ckeys
TypedMapProgram(p) ==
  LET rA == CreateTypedSource(EmptyBuilder, "A", <<IntVal(1), IntVal(2)>>, p.keys)
  IN CreateTypedNode(rA.b, "C", <<<<"A", "x">>>>, <<"int">>, [NoOp EXCEPT !.nout = 2],
                     p.ckeys, <<1>>).b

\* a condition B over A.x whose successors are the sources S1 and S2, with a
\* sink R1 over S1.s and a sink R2 over S2.s: the predicate returns p.ret
SkipProgram(p) ==
  LET b0 == CreateAnySource(EmptyBuilder, "A", [k \in {"x"} |-> IntVal(1)]).b
      b1 == CreateAnySource(b0, "S1", [k \in {"s"} |-> IntVal(1)]).b
      b2 == CreateAnySource(b1, "S2", [k \in {"s"} |-> IntVal(2)]).b
      b3 == CreateConditionDecl(b2, "B", <<<<"A", "x">>>>, [NoOp EXCEPT !.ret = <<p.ret>>],
                                <<b2.tasks_["S1"], b2.tasks_["S2"]>>, {}).b
      b4 == CreateAnySink(b3, "R1", <<<<"S1", "s">>>>).b
  IN CreateAnySink(b4, "R2", <<<<"S2", "s">>>>).b

SkipParams == [kind : {"skip"}, ret : {0, 1}]

\* a subtask P whose body increments the counter and a subgraph G made with
\* create_subgraph from a builder_fn that emits the counter it reads; p.edge
\* orders the two tasks
ComposedProgram(p) ==
  LET b0 == CreateSubtask(EmptyBuilder, "P", [NoOp EXCEPT !.body = "counter+1"]).b
      P == LastTask(b0)
      b1 == CreateSubgraph(b0, "G", [NoOp EXCEPT !.body = "counter+1"]).b
      G == LastTask(b1)
  IN IF p.edge = "P-G" THEN Precede(b1, P, G)
     ELSE IF p.edge = "G-P" THEN Precede(b1, G, P)
     ELSE b1

ComposedParams == [kind : {"composed"}, edge : {"P-G", "G-P", "none"}]

\* the declarative loop of loop_only.cpp created without an exit builder
BareLoopProgram(p) ==
  LET b0 == CreateTypedSource(EmptyBuilder, "Input", <<IntVal(0)>>, <<"input">>).b
  IN CreateLoopDecl(b0, "Loop", <<<<"Input", "input">>>>,
                    [NoOp EXCEPT !.bound = p.bound, !.stop = 1, !.body = "input+1"],
                    FALSE, p.keys).b

BareLoopParams == [kind : {"bareloop"}, bound : {0, 1}, keys : {{}, {"result"}}]

\* a task P made with create_subtask or create_subgraph whose builder_fn makes
\* a subtask Inner in the nested builder it is handed
InnerProgram(p) ==
  IF p.how = "subtask"
  THEN CreateSubtask(EmptyBuilder, "P", [NoOp EXCEPT !.body = "subtask"]).b
  ELSE CreateSubgraph(EmptyBuilder, "P", [NoOp EXCEPT !.body = "subtask"]).b

InnerParams == [kind : {"inner"}, how : {"subtask", "subgraph"}]

\* two declarative loops L1 and L2 over the same Input, neither depending on
\* the other; p.exits gives both an exit builder
TwoLoopsProgram(p) ==
  LET b0 == CreateTypedSource(EmptyBuilder, "Input", <<IntVal(0)>>, <<"input">>).b
      op == [NoOp EXCEPT !.bound = 1, !.stop = 1, !.body = "input+1"]
      b1 == CreateLoopDecl(b0, "L1", <<<<"Input", "input">>>>, op, p.exits, {}).b
  IN CreateLoopDecl(b1, "L2", <<<<"Input", "input">>>>, op, p.exits, {}).b

TwoLoopsParams == [kind : {"twoloops"}, exits : {TRUE}]

TypedMapParams ==
  [kind : {"typedmap"},
   keys : {<<"x", "y">>, <<"y", "x">>, <<"x", "x">>, <<"x">>, <<"x", "y", "z">>},
   ckeys : {<<"c", "d">>, <<"d", "c">>, <<"c", "c">>, <<"c">>}]

Params ==
  FlowParams \cup CondParams \cup MultiParams \cup LoopParams \cup LoopTaskParams
  \cup NestedParams \cup TypedMapParams \cup SkipParams
  \cup ComposedParams \cup BareLoopParams \cup InnerParams \cup TwoLoopsParams

Program(p) ==
  CASE p.kind = "flow" -> FlowProgram(p)
    [] p.kind = "nested" -> NestedProgram(p)
    [] p.kind = "typedmap" -> TypedMapProgram(p)
    [] p.kind = "skip" -> SkipProgram(p)
    [] p.kind = "composed" -> ComposedProgram(p)
    [] p.kind = "bareloop" -> BareLoopProgram(p)
    [] p.kind = "inner" -> InnerProgram(p)
    [] p.kind = "twoloops" -> TwoLoopsProgram(p)
    [] p.kind \in {"cond", "multi"} -> BranchProgram(p)
    [] p.kind = "loop" -> LoopProgram(p)
    [] OTHER -> LoopTaskProgram(p)

NoCall == [op |-> "", name |-> "", specs |-> <<>>, deps |-> <<>>, err |-> "",
           prev |-> EmptyBuilder, n |-> 0]

Init ==
  /\ scen \in Params
  /\ gb = Program(scen)
  /\ phase = "build"
  /\ jc = <<>>
  /\ queued = <<>>
  /\ active = <<>>
  /\ runs = <<>>
  /\ fails = <<>>
  /\ seen = <<>>
  /\ counter = 0
  /\ appending = {}
  /\ last_call = NoCall

\* a task was given the empty handle tf::Task{} as a successor
NullSuccessor == \E t \in Tasks : 0 \in Range(gb.taskflow_[t].succ)

\* precede() on the empty handle writes through its null node pointer, which
\* is undefined: the process may end there, during construction, or the write
\* may pass unnoticed and construction go on to run()
Fault ==
  /\ phase = "build"
  /\ NullSuccessor
  /\ phase' = "crashed"
  /\ UNCHANGED <<gb, jc, queued, active, runs, fails, seen, counter, scen, appending,
               last_call>>

Next ==
  \/ Run
  \/ \E t \in Tasks : Start(t)
  \/ \E t \in Tasks : PushBack(t)
  \/ \E t \in Tasks : Complete(t)
  \/ Wait
  \/ Fault
  \/ Race

Spec == Init /\ [][Next]_vars

\* the executor's workers keep taking and finishing tasks while any can step,
\* and run() returns once none is left
SpecFair == Spec /\ WF_vars(Next)

\* a second run() that first replaces every promise of the graph by a new one
RerunFresh ==
  /\ phase = "done"
  /\ last_call.op # "run"
  /\ gb' = [gb EXCEPT !.executor_ = TRUE,
                      !.heap = [p \in DOMAIN gb.heap |-> Unset]]
  /\ phase' = "running"
  /\ jc' = [t \in Tasks |-> NumStrongDependents(gb.taskflow_, t)]
  /\ queued' = [t \in Tasks |-> IF NumDependents(gb.taskflow_, t) = 0 THEN 1 ELSE 0]
  /\ active' = [t \in Tasks |-> 0]
  /\ runs' = [t \in Tasks |-> 0]
  /\ fails' = [t \in Tasks |-> 0]
  /\ seen' = [t \in Tasks |-> [n |-> 0, vals |-> EmptyMap]]
  /\ last_call' = [NoCall EXCEPT !.op = "run", !.prev = gb, !.n = 1]
  /\ UNCHANGED <<counter, scen, appending>>

\* GraphBuilder::run called a second time on a builder whose first run() has
\* returned: the executor runs the same taskflow_ again, from its roots, over
\* the promises the first run left; last_call keeps the builder as it was
Rerun ==
  /\ phase = "done"
  /\ last_call.op # "run"
  /\ gb' = [gb EXCEPT !.executor_ = TRUE]
  /\ phase' = "running"
  /\ jc' = [t \in Tasks |-> NumStrongDependents(gb.taskflow_, t)]
  /\ queued' = [t \in Tasks |-> IF NumDependents(gb.taskflow_, t) = 0 THEN 1 ELSE 0]
  /\ active' = [t \in Tasks |-> 0]
  /\ runs' = [t \in Tasks |-> 0]
  /\ fails' = [t \in Tasks |-> 0]
  /\ seen' = [t \in Tasks |-> [n |-> 0, vals |-> EmptyMap]]
  /\ last_call' = [NoCall EXCEPT !.op = "run", !.prev = gb, !.n = 1]
  /\ UNCHANGED <<counter, scen, appending>>

NextRerun ==
  \/ Next
  \/ Rerun

SpecRerun == Init /\ [][NextRerun]_vars


(***************************************************************************)
(* Graph construction on its own: any sequence of creation calls on an     *)
(* empty builder, with names, keys and input specs from small sets.        *)
(* last_call keeps the call, the exception it threw ("" when it returned)  *)
(* and the builder as it was before the call.                              *)
(***************************************************************************)
SourceNames == {"A", "B"}

ConsumerNames == {"C"}

KeyNames == {"x", "y"}

\* the outputs the input specs name: two keys of A, and the key of B that A has too
InputPairs == {<<"A", "x">>, <<"A", "y">>, <<"B", "x">>}

InputSpecs == SeqsUpTo(InputPairs, MaxSpecs)

CanCreate ==
  /\ phase = "build"
  /\ scen.kind = "build"
  /\ last_call.n < MaxCalls

Called(op, name, input_specs, r) ==
  /\ gb' = r.b
  /\ last_call' = [op |-> op, name |-> name, specs |-> input_specs, deps |-> <<>>,
                   err |-> r.err, prev |-> gb, n |-> last_call.n + 1]
  /\ UNCHANGED <<phase, jc, queued, active, runs, fails, seen, counter, scen, appending>>

BuildAnySource ==
  /\ CanCreate
  /\ \E name \in SourceNames :
       Called("create_any_source", name, <<>>,
              CreateAnySource(gb, name, [k \in KeyNames |-> IntVal(1)]))

BuildAnyNode ==
  /\ CanCreate
  /\ \E name \in ConsumerNames, input_specs \in InputSpecs :
       Called("create_any_node", name, input_specs,
              CreateAnyNode(gb, name, input_specs, ReturnsKeys({"x"}), {"x"}))

BuildAnySink ==
  /\ CanCreate
  /\ \E name \in ConsumerNames, input_specs \in InputSpecs :
       Called("create_any_sink", name, input_specs,
              CreateAnySink(gb, name, input_specs))

BuildTypedSource ==
  /\ CanCreate
  /\ \E name \in SourceNames :
       Called("create_typed_source", name, <<>>,
              CreateTypedSource(gb, name, <<IntVal(1)>>, <<"x">>))

BuildTypedNode ==
  /\ CanCreate
  /\ \E name \in ConsumerNames, input_specs \in InputSpecs, order \in {"ltr", "rtl"} :
       Called("create_typed_node", name, input_specs,
              CreateTypedNode(gb, name, input_specs,
                              [i \in DOMAIN input_specs |-> "int"],
                              [NoOp EXCEPT !.nout = 1], <<"x">>,
                              ArgOrder(order, Len(input_specs))))

(***************************************************************************)
(* Construction with the control-flow operations: the same calls on names  *)
(* that a source, or an earlier control-flow node, may already hold.       *)
(***************************************************************************)
ControlNames == {"A", "C"}

ControlSpecs == SeqsUpTo({<<"A", "x">>, <<"A", "z">>, <<"C", "x">>}, 1)

CanCreateControl ==
  /\ phase = "build"
  /\ scen.kind = "control"
  /\ last_call.n < MaxControlCalls

BuildControlSource ==
  /\ CanCreateControl
  /\ Called("create_any_source", "A", <<>>,
            CreateAnySource(gb, "A", [k \in {"x"} |-> IntVal(1)]))

BuildConditionDecl ==
  /\ CanCreateControl
  /\ \E name \in ControlNames, input_specs \in ControlSpecs :
       Called("create_condition_decl", name, input_specs,
              CreateConditionDecl(gb, name, input_specs, [NoOp EXCEPT !.ret = <<0>>],
                                  <<>>, {"result"}))

BuildMultiConditionDecl ==
  /\ CanCreateControl
  /\ \E name \in ControlNames, input_specs \in ControlSpecs :
       Called("create_multi_condition_decl", name, input_specs,
              CreateMultiConditionDecl(gb, name, input_specs,
                                       [NoOp EXCEPT !.ret = <<0>>], <<>>, {"result"}))

BuildLoopDecl ==
  /\ CanCreateControl
  /\ \E name \in ControlNames, input_specs \in ControlSpecs :
       Called("create_loop_decl", name, input_specs,
              CreateLoopDecl(gb, name, input_specs, NoOp, FALSE, {"result"}))

\* create_loop_decl(name, depend_on_nodes, body_task, condition_func) around a
\* task the builder already holds, with the default empty exit task;
\* last_call.deps records depend_on_nodes
BuildLoopDeclTask ==
  /\ CanCreateControl
  /\ \E name \in ControlNames, depend_on_nodes \in SeqsUpTo(ControlNames, MaxSpecs),
        body_task \in DOMAIN gb.taskflow_ :
       LET r == CreateLoopDeclTask(gb, name, depend_on_nodes, body_task, NoOp, 0)
       IN /\ gb' = r.b
          /\ last_call' = [op |-> "create_loop_decl(body_task)", name |-> name,
                           specs |-> <<>>, deps |-> depend_on_nodes, err |-> r.err,
                           prev |-> gb, n |-> last_call.n + 1]
  /\ UNCHANGED <<phase, jc, queued, active, runs, fails, seen, counter, scen, appending>>

BuildSubgraphKeyed ==
  /\ CanCreateControl
  /\ \E name \in ControlNames, input_specs \in ControlSpecs :
       Called("create_subgraph", name, input_specs,
              CreateSubgraphKeyed(gb, name, input_specs, NoOp, {"x"}))

BuildSubtaskKeyed ==
  /\ CanCreateControl
  /\ \E name \in ControlNames, input_specs \in ControlSpecs :
       Called("create_subtask", name, input_specs,
              CreateSubtaskKeyed(gb, name, input_specs, NoOp, {"x"}))

BuildControlNode ==
  /\ CanCreateControl
  /\ \E name \in ControlNames, input_specs \in ControlSpecs :
       Called("create_any_node", name, input_specs,
              CreateAnyNode(gb, name, input_specs, [NoOp EXCEPT !.keys = {"x"}], {"x"}))

BuildControlSink ==
  /\ CanCreateControl
  /\ \E name \in ControlNames, input_specs \in ControlSpecs :
       Called("create_any_sink", name, input_specs,
              CreateAnySink(gb, name, input_specs))

BuildControlTypedNode ==
  /\ CanCreateControl
  /\ \E name \in ControlNames, input_specs \in ControlSpecs :
       Called("create_typed_node", name, input_specs,
              CreateTypedNode(gb, name, input_specs,
                              [i \in DOMAIN input_specs |-> "int"],
                              [NoOp EXCEPT !.nout = 1], <<"x">>,
                              ArgOrder("ltr", Len(input_specs))))

BuildPipelineNode ==
  /\ CanCreateControl
  /\ \E name \in ControlNames :
       Called("create_pipeline_node", name, <<>>, CreatePipelineNode(gb, name))

InitBuild ==
  /\ scen = [kind |-> "build"]
  /\ gb = EmptyBuilder
  /\ phase = "build"
  /\ jc = <<>>
  /\ queued = <<>>
  /\ active = <<>>
  /\ runs = <<>>
  /\ fails = <<>>
  /\ seen = <<>>
  /\ counter = 0
  /\ appending = {}
  /\ last_call = NoCall

NextBuild ==
  \/ BuildAnySource
  \/ BuildAnyNode
  \/ BuildAnySink
  \/ BuildTypedSource
  \/ BuildTypedNode

SpecBuild == InitBuild /\ [][NextBuild]_vars

InitControl ==
  /\ scen = [kind |-> "control"]
  /\ gb = EmptyBuilder
  /\ phase = "build"
  /\ jc = <<>>
  /\ queued = <<>>
  /\ active = <<>>
  /\ runs = <<>>
  /\ fails = <<>>
  /\ seen = <<>>
  /\ counter = 0
  /\ appending = {}
  /\ last_call = NoCall

NextControl ==
  \/ BuildControlSource
  \/ BuildConditionDecl
  \/ BuildMultiConditionDecl
  \/ BuildLoopDecl
  \/ BuildLoopDeclTask
  \/ BuildSubgraphKeyed
  \/ BuildSubtaskKeyed
  \/ BuildPipelineNode
  \/ BuildControlNode
  \/ BuildControlSink
  \/ BuildControlTypedNode

SpecControl == InitControl /\ [][NextControl]_vars


(***************************************************************************)
(* Properties.                                                             *)
(***************************************************************************)
Running == phase \in {"running", "done"}

\* invocations of task t that have started
Invocations(t) == runs[t] + fails[t] + active[t]

\* the promises the callable of task t sets
Written(t) ==
  LET w == gb.taskflow_[t].w
  IN Range(w.out) \cup Range(w.tprom) \cup Range(w.aprom)

\* C1: every channel is written at most once: a task that owns channels ends
\* normally (all its writes done) at most once in a run, and a channel that
\* holds a value keeps it in every step, also in a step where a task tries to
\* write it again (that attempt fails).
C1_WrittenAtMostOnce ==
  /\ [](Running => \A t \in Tasks : Written(t) # {} => runs[t] <= 1)
  /\ [][\A p \in DOMAIN gb.heap :
          gb.heap[p].set => p \in DOMAIN gb'.heap /\ gb'.heap[p] = gb.heap[p]]_vars

\* a second write was attempted on the loop's "result" channel: it failed and
\* the channel holds the first value
C1_Witness ==
  /\ Running
  /\ scen.kind = "loop"
  /\ \E t \in Tasks :
       /\ gb.taskflow_[t].w.type = "LoopCond"
       /\ runs[t] = 1
       /\ fails[t] = 1
       /\ gb.heap[gb.taskflow_[t].w.out["result"]] =
            [set |-> TRUE, val |-> IntVal(0), exc |-> FALSE]

\* the value the compute step of closure w received for its i-th input spec
Received(w, vals, i) ==
  IF w.type = "TypedNode" THEN vals[i] ELSE vals[w.specs[i][2]]

\* C2: when the compute step of a consumer C is invoked, every declared input
\* (P, K) is already written by P and the value C receives for it is the value
\* of P's channel for K (so every reader of K sees the same value).
C2_InputsWrittenAndDelivered ==
  Running =>
    \A t \in Tasks :
      LET w == gb.taskflow_[t].w IN
      (w.type \in {"AnyNode", "AnySink", "TypedNode"} /\ seen[t].n > 0) =>
        \A i \in DOMAIN w.specs :
          LET ch == gb.heap[GetOutput(gb, w.specs[i][1], w.specs[i][2])]
          IN ch.set /\ Received(w, seen[t].vals, i) = ch.val


\* the precedence edges of a task graph, as a set
EdgeSet(g) == UNION {{<<u, g[u].succ[i]>> : i \in DOMAIN g[u].succ} : u \in DOMAIN g}

\* what the last creation call added to the task graph
NewTasks == (Len(last_call.prev.taskflow_) + 1)..Len(gb.taskflow_)

NewEdges == EdgeSet(gb.taskflow_) \ EdgeSet(last_call.prev.taskflow_)

CreatedBy(ops) == last_call.op \in ops /\ last_call.err = ""

\* the task of the i-th source named by the last call
SourceTask(i) == last_call.prev.tasks_[last_call.specs[i][1]]

SourceEdges == {<<SourceTask(i), gb.tasks_[last_call.name]>> : i \in DOMAIN last_call.specs}

NewAdapters == {t \in NewTasks : gb.taskflow_[t].w.type = "Adapter"}

C4_OneEdgePerSource ==
  CreatedBy({"create_any_node", "create_any_sink"}) =>
    \A i \in DOMAIN last_call.specs :
      Occurrences(gb.taskflow_[SourceTask(i)].succ, gb.tasks_[last_call.name]) = 1


\* the condition task of the branch programs and the task S_j, handed to the
\* creation call as its successor of index j
CondTask == gb.tasks_["B"]

Successor(j) == CHOOSE t \in Tasks : gb.taskflow_[t].name = BranchNames[j + 1]

BranchIndices == 0..(scen.nsucc - 1)

\* successor j never started and is not scheduled
NotRun(j) == queued[Successor(j)] = 0 /\ Invocations(Successor(j)) = 0

\* C5: a Condition with successors [S0, ..., Sn-1] whose predicate returns i,
\* 0 <= i < n, runs exactly Si: no other successor is ever scheduled or started,
\* and when run() returns Si has run once.
C5_ExactlyChosenSuccessor ==
  (Running /\ scen.kind = "cond" /\ scen.ret[1] \in BranchIndices) =>
    /\ \A j \in BranchIndices \ {scen.ret[1]} : NotRun(j)
    /\ phase = "done" => runs[Successor(scen.ret[1])] = 1

\* with successors [S0, S1] and predicate 1, run() returned after S1 ran
C5_Witness ==
  /\ phase = "done"
  /\ scen.kind = "cond"
  /\ scen.nsucc = 2
  /\ scen.ret = <<1>>
  /\ runs[CondTask] = 1
  /\ runs[Successor(1)] = 1
  /\ runs[Successor(0)] = 0

\* C6: a Multi-Condition with successors [S0, S1, S2] runs exactly the
\* successors whose indices its function returns: a successor whose index is not
\* returned is never scheduled or started, and when run() returns every
\* successor whose index was returned has run.
C6_ExactlyReturnedSuccessors ==
  (Running /\ scen.kind = "multi") =>
    /\ \A j \in BranchIndices \ Range(scen.ret) : NotRun(j)
    /\ phase = "done" => \A j \in BranchIndices \cap Range(scen.ret) :
                           runs[Successor(j)] >= 1

\* the function returned {0, 2}: S0 and S2 are executing at the same time and
\* S1 has not run
C6_Witness ==
  /\ phase = "running"
  /\ scen.kind = "multi"
  /\ scen.ret = <<0, 2>>
  /\ active[Successor(0)] = 1
  /\ active[Successor(2)] = 1
  /\ NotRun(1)


\* the three tasks of the loop of the loop programs
TaskNamed(n) == CHOOSE t \in Tasks : gb.taskflow_[t].name = n

BodyTask == TaskNamed(IF scen.kind = "loop" THEN "Loop_body" ELSE "LoopBody")

ConditionTask == TaskNamed(IF scen.kind = "loop" THEN "Loop_condition" ELSE "Loop")

ExitTask == TaskNamed(IF scen.kind = "loop" THEN "Loop_exit" ELSE "LoopExit")

\* the loop around a create_subtask body, condition_func returning 0 while
\* counter < n and 1 otherwise, has returned from run()
SubtaskLoopDone == phase = "done" /\ scen.kind = "looptask" /\ scen.stop = 1

C8_CounterReachesFive ==
  (/\ phase = "done"
   /\ scen.kind = "loop"
   /\ scen.keys = {"result"}
   /\ scen.bound = 5
   /\ scen.stop = 1) => counter = 5 /\ runs[ExitTask] = 1

\* C9: the Condition is evaluated after every Body execution, and a predicate
\* that returns a non-zero value (1 or 2) stops the iteration and makes the Exit
\* task run.  Stated for the loops that declare no output key, whose condition
\* writes no channel.
C9_NonZeroRunsExit ==
  (/\ phase = "done"
   /\ scen.kind \in {"loop", "looptask"}
   /\ scen.kind = "loop" => scen.keys = {}) =>
     /\ runs[ConditionTask] = runs[BodyTask]
     /\ runs[ExitTask] = 1

\* C10: the Exit task of a loop is started at most once, and once it has started
\* neither the Body nor the Condition is scheduled or executing any more.
C10_ExitOnceAndLast ==
  (Running /\ scen.kind \in {"loop", "looptask"}) =>
    /\ queued[ExitTask] + Invocations(ExitTask) <= 1
    /\ Invocations(ExitTask) >= 1 =>
         /\ queued[BodyTask] = 0 /\ active[BodyTask] = 0
         /\ queued[ConditionTask] = 0 /\ active[ConditionTask] = 0

\* the Exit of a declarative loop has executed, after one Body and one Condition
C10_Witness ==
  /\ phase = "done"
  /\ scen.kind = "loop"
  /\ runs[BodyTask] = 1
  /\ runs[ConditionTask] = 1
  /\ runs[ExitTask] = 1


\* the type-erased transform C of the flow programs, whose compute step returns
\* the keys scen.ret and which declares the output key "c"
AnyTransformRan ==
  /\ Running
  /\ scen.kind = "flow"
  /\ ~scen.typed
  /\ runs[gb.tasks_["C"]] + fails[gb.tasks_["C"]] > 0

NoOutputFulfilled(name) ==
  \A k \in DOMAIN gb.nodes_[name].out : ~gb.heap[gb.nodes_[name].out[k]].set

\* C11: a type-erased node whose compute step returns a key outside its
\* declared output keys (possibly together with declared keys) fails, and none
\* of its output channels is fulfilled.
C11_UnknownKeyFulfilsNothing ==
  (AnyTransformRan /\ ~(scen.ret \subseteq DOMAIN gb.nodes_["C"].out)) =>
    /\ fails[gb.tasks_["C"]] = 1
    /\ runs[gb.tasks_["C"]] = 0
    /\ NoOutputFulfilled("C")

\* C12: a type-erased node whose compute step returns a strict subset of its
\* declared output keys fails, instead of completing with a declared channel
\* left unwritten.
C12_MissingKeyFails ==
  (AnyTransformRan /\ scen.ret \subseteq DOMAIN gb.nodes_["C"].out
                   /\ scen.ret # DOMAIN gb.nodes_["C"].out) =>
    /\ fails[gb.tasks_["C"]] = 1
    /\ runs[gb.tasks_["C"]] = 0

\* a creation call has been made on the builder
Created == last_call.n > 0

\* the call was given a name that the builder had registered before it
NameTaken == Created /\ last_call.name \in DOMAIN last_call.prev.nodes_

\* C13: for every creation operation, creating a node under a name that is
\* already registered fails fatally, and the earlier node and its task stay
\* registered under that name.
C13_DuplicateNameFails ==
  NameTaken =>
    /\ last_call.err # ""
    /\ gb.nodes_[last_call.name] = last_call.prev.nodes_[last_call.name]
    /\ gb.tasks_[last_call.name] = last_call.prev.tasks_[last_call.name]

\* the input spec names a registered node and a key among its output keys
Declares(b, spec) ==
  /\ spec[1] \in DOMAIN b.nodes_
  /\ spec[2] \in DOMAIN b.nodes_[spec[1]].out

\* an input spec of the call names an unregistered node or an undeclared key
BadSpec ==
  /\ Created
  /\ \E i \in DOMAIN last_call.specs : ~Declares(last_call.prev, last_call.specs[i])

\* C14: creating a node, sink, condition, multi-condition, loop, subgraph or
\* subtask whose input specs name an unregistered node, or a key the named
\* node does not declare as output, fails at construction with a fatal error
\* and registers no node (the registry of nodes and tasks is left as it was).
C14_BadSpecFailsAndRegistersNothing ==
  BadSpec =>
    /\ last_call.err # ""
    /\ gb.nodes_ = last_call.prev.nodes_
    /\ gb.tasks_ = last_call.prev.tasks_

\* a loop is created over the key z, which the registered source A lacks
C14_Witness ==
  /\ BadSpec
  /\ last_call.op = "create_loop_decl"
  /\ last_call.specs = <<<<"A", "z">>>>
  /\ "A" \in DOMAIN last_call.prev.nodes_
  /\ last_call.err = "Unknown output key"
  /\ last_call.name \notin DOMAIN gb.nodes_

\* the flow program with a typed C is running
TypedFlow == Running /\ scen.kind = "flow" /\ scen.typed

\* the adapter tasks create_typed_node made
Adapters == {t \in Tasks : gb.taskflow_[t].w.type = "Adapter"}

\* the value adapter t reads has a dynamic type other than the declared one
Mismatch(t) ==
  LET w == gb.taskflow_[t].w
  IN gb.heap[w.fin[1]].set /\ gb.heap[w.fin[1]].val.type # w.op.T

\* C15: when a typed consumer declares type T for a key whose producer wrote
\* a value of another dynamic type, the adapter task detects it (the typed
\* channel it feeds carries the error instead of a value), the consumer's read
\* fails, and the consumer's compute step is never invoked with a value whose
\* type is not T.
C15_MismatchDetectedByAdapter ==
  TypedFlow =>
    /\ \A t \in Adapters :
         (runs[t] + fails[t] > 0 /\ Mismatch(t)) =>
            gb.heap[gb.taskflow_[t].w.tprom[1]].exc
    /\ \A k \in DOMAIN seen[gb.tasks_["C"]].vals :
         seen[gb.tasks_["C"]].vals[k].type = scen.T
    /\ (scen.T # "int" /\ Invocations(gb.tasks_["C"]) > active[gb.tasks_["C"]]) =>
         /\ fails[gb.tasks_["C"]] = 1
         /\ runs[gb.tasks_["C"]] = 0
         /\ seen[gb.tasks_["C"]].n = 0

\* C declares double inputs, the sources wrote int: C's read has failed
C15_Witness ==
  /\ TypedFlow
  /\ scen.T = "double"
  /\ \E t \in Adapters : runs[t] = 1 /\ Mismatch(t)
  /\ fails[gb.tasks_["C"]] = 1
  /\ seen[gb.tasks_["C"]].n = 0

EndToEnd ==
  /\ scen.kind = "flow"
  /\ scen.specs = <<<<"A", "x">>>>
  /\ scen.ret = {"c"}
  /\ scen.T = "int"

\* what H's callback is to be given: c = f(v) for v = 1 and f = x + 1
ExpectedAtSink == [k \in {"c"} |-> Val("int", (1 + 1) % ValMod)]

\* C17: for Source A (x = v) -> Transform (reads A.x, writes f(v)) -> Sink H,
\* run() terminates and H's compute step is invoked exactly once, with exactly
\* the mapping {c = f(v)}, for a typed and a type-erased transform alike.
C17_EndToEndValueFlow ==
  /\ [](EndToEnd /\ Running =>
         /\ seen[gb.tasks_["H"]].n <= 1
         /\ seen[gb.tasks_["H"]].n = 1 => seen[gb.tasks_["H"]].vals = ExpectedAtSink
         /\ phase = "done" => (seen[gb.tasks_["H"]].n = 1 /\ runs[gb.tasks_["H"]] = 1))
  /\ [](EndToEnd => <>(phase = "done"))

\* run() has returned after H was given the value of a typed transform
C17_Witness ==
  /\ EndToEnd
  /\ scen.typed
  /\ phase = "done"
  /\ seen[gb.tasks_["H"]] = [n |-> 1, vals |-> ExpectedAtSink]

\* a condition B that declares "result", and a sink R created after it with
\* the input spec (B, "result")
ResultReader == scen.kind = "cond" /\ scen.reader

\* C18: a node created after a condition with the input spec (condition,
\* "result") runs in the run in which the condition is evaluated and observes
\* the index the predicate returned, whichever index that is: when run()
\* returns, the reader has been invoked once with that index.
C18_ResultReaderObservesIndex ==
  (ResultReader /\ phase = "done") =>
    /\ runs[CondTask] = 1
    /\ seen[gb.tasks_["R"]] = [n |-> 1, vals |-> [k \in {"result"} |-> IntVal(scen.ret[1])]]

\* no task of the run can take a step any more: run() has returned, or every
\* task a worker holds waits on a channel and nothing is scheduled
Quiescent ==
  /\ Running
  /\ \/ phase = "done"
     \/ \A t \in Tasks : /\ queued[t] = 0
                         /\ active[t] > 0 => Blocked(gb.taskflow_[t].w, gb.heap)

\* C19: a subgraph created with create_subgraph(name, input_specs,
\* builder_fn, output_keys) produces its outputs when the parent graph runs:
\* every declared output key is written and a consumer of (name, k) runs to
\* completion, so the run cannot come to rest before that has happened.
C19_SubgraphOutputsWritten ==
  (scen.kind = "nested" /\ scen.how = "subgraph" /\ Quiescent) =>
    /\ \A k \in DOMAIN gb.nodes_["G"].out : gb.heap[gb.nodes_["G"].out[k]].set
    /\ runs[gb.tasks_["H"]] = 1

\* what the last invocation of the subtask body met
LastBody == seen[BodyTask].vals

\* C20: every execution of a create_subtask task calls builder_fn on a new,
\* empty GraphBuilder (no node or channel of an earlier invocation is in it)
\* and returns only after every task of the nested graph it built has
\* finished; no invocation fails on what an earlier one left.
C20_FreshNestedGraphEachInvocation ==
  (scen.kind = "looptask" /\ Running) =>
    /\ fails[BodyTask] = 0
    /\ seen[BodyTask].n = runs[BodyTask]
    /\ runs[BodyTask] > 0 =>
         /\ LastBody["nodes"].v = 0
         /\ LastBody["channels"].v = 0
         /\ LastBody["tasks"].v = 4
         /\ LastBody["finished"] = LastBody["tasks"]

\* the body has been executed a third time, again on an empty builder
C20_Witness ==
  /\ scen.kind = "looptask"
  /\ Running
  /\ runs[BodyTask] = 3
  /\ LastBody["nodes"].v = 0
  /\ LastBody["finished"].v = 4

\* the tasks add_node made for the nodes of the graph: sources, transforms and
\* sinks, as opposed to the Body, Condition and Exit tasks of a loop
NodeTasks ==
  {t \in Tasks : gb.taskflow_[t].w.type \in
     {"AnySource", "AnyNode", "AnySink", "TypedSource", "TypedNode", "SubtaskNode"}}

\* C21: in one run() the compute step of every node registered through the
\* create_* operations executes at most once, a node whose input spec names a
\* Loop node included; only the loop's Body and Condition tasks repeat.
C21_NodesExecuteAtMostOnce ==
  Running => \A t \in NodeTasks : Invocations(t) <= 1 /\ seen[t].n <= 1

\* the nested body graphs of earlier iterations that the parent builder holds:
\* the nested builders it retains, less the one of the exit graph
BodyGraphsHeld == gb.subgraph_builders_ - runs[ExitTask]

\* C22: each Body invocation of a declarative loop builds a new nested builder,
\* runs it to completion and discards it: when the next iteration starts, and
\* when the loop has exited, the parent builder holds no nested body graph of
\* an earlier iteration.
C22_BodyGraphDiscarded ==
  (scen.kind = "loop" /\ Running /\ (active[BodyTask] > 0 \/ phase = "done")) =>
    BodyGraphsHeld = 0

\* the declared keys are pairwise distinct
DistinctKeys(keys) == \A i, j \in DOMAIN keys : keys[i] = keys[j] => i = j

\* the channel node `name` registers under key k holds the value v
ChannelHolds(name, k, v) ==
  /\ gb.heap[gb.nodes_[name].out[k]].set
  /\ gb.heap[gb.nodes_[name].out[k]].val = v

\* construction of a typed node fails exactly when the number of keys is not
\* the number of outputs, here 2 (C also needs its producer A)
TypedMapCountChecked ==
  /\ "A" \in DOMAIN gb.nodes_ <=> Len(scen.keys) = 2
  /\ "C" \in DOMAIN gb.nodes_ <=> (Len(scen.keys) = 2 /\ Len(scen.ckeys) = 2)

\* element i of the tuple is in the channel of key i, for the source A once it
\* has run and for the transform C once it has run
TypedMapInOrder ==
  /\ ("A" \in DOMAIN gb.nodes_ /\ runs[gb.tasks_["A"]] = 1) =>
       \A i \in DOMAIN scen.keys : ChannelHolds("A", scen.keys[i], IntVal(i))
  /\ ("C" \in DOMAIN gb.nodes_ /\ runs[gb.tasks_["C"]] = 1) =>
       \A i \in DOMAIN scen.ckeys :
         ChannelHolds("C", scen.ckeys[i], UserFnAt(seen[gb.tasks_["C"]].vals, i))

\* C23 as stated: for a typed source or transform with declared output keys
\* [k0, ..., km-1], element i of the tuple is the value written to the channel
\* of ki, for every i, whatever the keys; construction fails when the number
\* of keys differs from the number of outputs.
C23_TupleMappedToKeys ==
  (scen.kind = "typedmap" /\ Running) => (TypedMapCountChecked /\ TypedMapInOrder)

\* C23 amended: the same for pairwise distinct declared output keys.
C23_TupleMappedToDistinctKeys ==
  (scen.kind = "typedmap" /\ Running) =>
    /\ TypedMapCountChecked
    /\ (DistinctKeys(scen.keys) /\ DistinctKeys(scen.ckeys)) => TypedMapInOrder

\* the source declared (y, x) and the transform (d, c): both have run
C23_Witness ==
  /\ scen.kind = "typedmap"
  /\ scen.keys = <<"y", "x">>
  /\ scen.ckeys = <<"d", "c">>
  /\ phase = "done"
  /\ ChannelHolds("A", "y", IntVal(1))
  /\ ChannelHolds("A", "x", IntVal(2))
  /\ ChannelHolds("C", "d", UserFnAt(seen[gb.tasks_["C"]].vals, 1))
  /\ ChannelHolds("C", "c", UserFnAt(seen[gb.tasks_["C"]].vals, 2))

\* a worker holds task t, which waits on a channel nothing has written
Waiting(t) ==
  /\ active[t] > 0
  /\ \E k \in DOMAIN gb.taskflow_[t].w.fin : ~gb.heap[gb.taskflow_[t].w.fin[k]].set

\* no channel of a task that has not started holds a value
UnstartedUnwritten ==
  Running => \A t \in Tasks :
    Invocations(t) = 0 => \A c \in Written(t) : ~gb.heap[c].set

\* the branch the condition did not select has not run when run() returns: its
\* channel is unwritten and its reader has not started
SkippedBranchUnwritten ==
  (scen.kind = "skip" /\ phase = "done") =>
    LET skipped == IF scen.ret = 0 THEN "S2" ELSE "S1"
        reader == IF scen.ret = 0 THEN "R2" ELSE "R1"
    IN /\ Invocations(gb.tasks_[skipped]) = 0
       /\ ~gb.heap[gb.nodes_[skipped].out["s"]].set
       /\ Invocations(gb.tasks_[reader]) = 0

\* a step that leaves a waiting reader's channel unwritten leaves the reader
\* waiting: it neither returns nor fails
WaitingStays ==
  Running => \A t \in Tasks :
    (Waiting(t) /\ Waiting(t)') =>
      (runs'[t] = runs[t] /\ fails'[t] = fails[t] /\ active'[t] >= active[t])

\* the producer C of the flow graph has failed and its reader H waits
ReaderOfFailedProducer ==
  /\ scen.kind = "flow"
  /\ Running
  /\ fails[gb.tasks_["C"]] > 0
  /\ runs[gb.tasks_["H"]] + fails[gb.tasks_["H"]] = 0
  /\ Waiting(gb.tasks_["H"])

\* C24: a channel whose producer never runs (a branch a condition did not
\* select, a producer that failed earlier) is never written, and a reader that
\* has started waiting on it never completes: it stays on its worker for ever,
\* without timeout, cancellation or error.
C24_UnwrittenChannelBlocksReader ==
  /\ [](UnstartedUnwritten /\ SkippedBranchUnwritten)
  /\ [][WaitingStays]_vars
  /\ [](ReaderOfFailedProducer => []ReaderOfFailedProducer)

\* the typed transform C failed on its input and the sink H waits on C.c
C24_Witness ==
  /\ ReaderOfFailedProducer
  /\ scen.typed
  /\ ~gb.heap[gb.nodes_["C"].out["c"]].set
  /\ queued = [t \in Tasks |-> 0]
  /\ \A t \in Tasks : active[t] > 0 <=> t = gb.tasks_["H"]

\* the tasks create_subgraph composed
ModuleTasks == {t \in DOMAIN gb.taskflow_ : gb.taskflow_[t].w.type = "Module"}

\* programs whose nested builders all come from create_subgraph
SubgraphsOnly ==
  \/ scen.kind \in {"cond", "multi", "composed"}
  \/ scen.kind = "nested" /\ scen.how = "subgraph"

\* the nested graph builder_fn leaves when it reads the counter value c
BuiltAt(c) == BodyBuilder([NoOp EXCEPT !.body = "counter+1"], EmptyBuilder, c).b

\* C25: create_subgraph builds its nested graph once, at construction:
\* builder_fn is invoked during the call and never during run(), so the graph
\* the composed task executes is the one built before the run, and the parent
\* owns one nested builder per call from the call on, in every state of the run.
C25_SubgraphBuiltOnceAndRetained ==
  /\ SubgraphsOnly => gb.subgraph_builders_ = Cardinality(ModuleTasks)
  /\ scen.kind = "composed" =>
       /\ gb.subgraph_builders_ = 1
       /\ gb.taskflow_[TaskNamed("G")].w.nested.taskflow_ = BuiltAt(0).taskflow_
       /\ Running =>
            /\ fails[TaskNamed("G")] = 0
            /\ runs[TaskNamed("G")] = 1 =>
                 seen[TaskNamed("G")] =
                   [n |-> 1,
                    vals |-> [tasks |-> IntVal(Len(BuiltAt(0).taskflow_)),
                              finished |-> IntVal(Len(BuiltAt(0).taskflow_)),
                              failed |-> IntVal(0),
                              trigger |-> IntVal(0)]]

\* the subtask P has moved the counter to 1 and the composed graph G, built
\* when the counter was 0, has then executed
C25_Witness ==
  /\ scen.kind = "composed"
  /\ scen.edge = "P-G"
  /\ phase = "done"
  /\ counter = 1
  /\ runs[TaskNamed("G")] = 1
  /\ seen[TaskNamed("G")].vals.trigger = IntVal(0)
  /\ gb.subgraph_builders_ = 1

\* C26: when a declarative loop is created without an exit builder, a
\* predicate result of 1 ends the loop with nothing scheduled: no further Body
\* or Condition execution happens and the run completes normally (the program
\* is not ended by the loop's construction, and once the Condition has
\* returned 1 neither loop task is scheduled or executed again).
C26_LoopWithoutExitEnds ==
  scen.kind = "bareloop" =>
    /\ phase # "crashed"
    /\ (Running /\ runs[TaskNamed("Loop_condition")] >= 1) =>
         /\ Invocations(TaskNamed("Loop_body")) = 1
         /\ Invocations(TaskNamed("Loop_condition")) = 1
         /\ queued = [t \in Tasks |-> 0]

\* the predicate of the loop returns a non-zero value after finitely many
\* evaluations: the counter the body leaves reaches the bound
PredicateStops ==
  \/ scen.kind = "looptask"
  \/ scen.kind = "loop" /\ scen.bound <= 1

\* the predicate of the loop returns 0 at every evaluation: the declarative
\* body sets the counter to 1 each time and the bound is above it
PredicateAlwaysZero == scen.kind = "loop" /\ scen.bound >= 2

\* under a fair scheduler run() returns when the predicate stops the loop
LoopStopsWhenPredicateDoes == [](PredicateStops => <>(phase = "done"))

\* C27: loop termination: the number of iterations is bounded only by the
\* predicate; if the predicate returns a non-zero value after finitely many
\* evaluations then, under a fair scheduler, run() terminates, and if it always
\* returns 0 the Body/Condition cycle repeats forever: run() never returns and
\* no Condition evaluation ends the cycle by failing.
C27_LoopTermination ==
  /\ LoopStopsWhenPredicateDoes
  /\ [](PredicateAlwaysZero /\ Running =>
         (phase # "done" /\ fails[ConditionTask] = 0))

\* every adapter of the typed transform C is a predecessor of C's task, C has
\* not started before each of them has run, and C holds no worker waiting
AdaptersFirst ==
  LET C == gb.tasks_["C"]
  IN /\ \A a \in Adapters :
          /\ C \in Range(gb.taskflow_[a].succ)
          /\ Invocations(C) > 0 => runs[a] + fails[a] >= 1
     /\ ~(active[C] > 0 /\ Blocked(gb.taskflow_[C].w, gb.heap))

\* C28: for every input spec of a node created with create_typed_node, the
\* adapter task that fulfils that input's typed channel is a scheduling
\* predecessor of the node's task, also when the same (source, key) appears
\* more than once in the input specs; hence the node's task never starts while
\* one of its adapters has not run, and never holds a worker waiting for it.
C28_AdaptersPrecedeTypedNode == TypedFlow => AdaptersFirst

\* the same for input specs that name each (source, key) once
AdaptersFirstForDistinctSpecs ==
  (TypedFlow /\ scen.specs # <<<<"A", "x">>, <<"A", "x">>>>) => AdaptersFirst

\* a declarative loop that declares "result" and a sink R over (Loop, "result")
LoopReader ==
  scen.kind = "loop" /\ scen.reader /\ scen.keys = {"result"} /\ Running

\* a Condition evaluation of the loop has returned a non-zero index
StopSignalled ==
  /\ runs[ConditionTask] >= 1
  /\ gb.heap[gb.nodes_["Loop"].out["result"]].set
  /\ gb.heap[gb.nodes_["Loop"].out["result"]].val.v # 0

\* C29: a node that reads an output key of a Loop node starts only after the
\* loop has finished iterating, i.e. after the Condition evaluation that
\* signalled stop; it never runs between two iterations: once it has started
\* the Body is neither scheduled nor executing, and the value it is given is
\* the index that stopped the loop.
C29_LoopReaderAfterLoop ==
  LoopReader =>
    (Invocations(gb.tasks_["R"]) > 0 =>
       /\ StopSignalled
       /\ queued[BodyTask] = 0 /\ active[BodyTask] = 0
       /\ seen[gb.tasks_["R"]].n > 0 => seen[gb.tasks_["R"]].vals["result"].v # 0)

\* C30: a subtask created inside a nested builder (the builder handed to a
\* create_subgraph or create_subtask builder function) executes its own nested
\* graph when the parent graph is run: the nested builder has an executor when
\* its tasks execute, so the nested subtask does not fail with a
\* missing-executor error, and neither does the task that runs it.
C30_NestedBuilderHasExecutor ==
  (scen.kind = "inner" /\ Running) =>
    /\ fails[TaskNamed("P")] = 0
    /\ seen[TaskNamed("P")].n > 0 =>
         /\ seen[TaskNamed("P")].vals["tasks"].v = 1
         /\ seen[TaskNamed("P")].vals["failed"].v = 0

\* C31: while a graph runs, no two tasks are inside the append to the builder's
\* list of retained nested builders at the same time, also when one builder
\* holds two declarative loops with no dependency between them
C31_AppendsMutuallyExclusive == Running => Cardinality(appending) <= 1

\* a second run() was called after the first one returned
SecondRun == last_call.op = "run"

\* the tasks of the nodes that declare an output key
DeclaresOutput == {t \in Tasks : gb.taskflow_[t].w.type # "Adapter" /\ Written(t) # {}}

\* every channel the first run wrote holds the value it was written with
FirstRunValuesKept ==
  \A p \in DOMAIN last_call.prev.heap :
    last_call.prev.heap[p].set => gb.heap[p] = last_call.prev.heap[p]

DistinctSpecs(w) ==
  \A i, j \in DOMAIN w.specs : i # j => w.specs[i] # w.specs[j]

\* C33: the compute step of a type-erased node, sink, condition or loop gets
\* one value per declared input spec: for n pairwise distinct specs its input
\* mapping has n entries, also when two producers are read under one key name.
C33_OneEntryPerInputSpec ==
  Running =>
    \A t \in Tasks :
      LET w == gb.taskflow_[t].w IN
      (/\ w.type \in {"AnyNode", "AnySink", "ConditionNode", "LoopBody", "LoopCond",
                      "LoopExit"}
       /\ seen[t].n > 0
       /\ DistinctSpecs(w)) =>
        Cardinality(DOMAIN seen[t].vals) = Len(w.specs)

\* the condition tasks of the loops of the graph
LoopConditions == {t \in Tasks : gb.taskflow_[t].w.type \in {"LoopCond", "LoopCondTask"}}

\* the Body of the loop that condition task c controls: its successor 0
BodyOf(c) == gb.taskflow_[c].succ[1]

C35_FailedCreationChangesNothing ==
  last_call.err # "" =>
    /\ gb.nodes_ = last_call.prev.nodes_
    /\ gb.tasks_ = last_call.prev.tasks_
    /\ gb.taskflow_ = last_call.prev.taskflow_
    /\ gb.adapter_tasks_ = last_call.prev.adapter_tasks_

\* the body, condition and exit tasks of the declarative loops
LoopTasks ==
  {t \in Tasks : gb.taskflow_[t].w.type \in {"LoopBody", "LoopCond", "LoopExit"}}

\* C36: in every iteration of a declarative loop the body builder, the
\* predicate and the exit builder receive the same input values, those the
\* loop's input channels were written with before the first iteration: what
\* an invocation received is what the channels hold, and a later invocation
\* of the same task receives what the earlier one did.
C36_LoopInputsSameInEveryIteration ==
  /\ [](Running =>
         \A t \in LoopTasks :
           seen[t].n > 0 => seen[t].vals = InVals(gb.taskflow_[t].w, gb.heap))
  /\ [][Running =>
          \A t \in LoopTasks : seen[t].n > 0 => seen'[t].vals = seen[t].vals]_vars

\* the third iteration of the loop of loop_only.cpp: body and predicate have
\* again received the 0 that Input wrote, although the counter is 1
C36_Witness ==
  /\ Running
  /\ scen.kind = "loop"
  /\ seen[BodyTask].n = 3
  /\ seen[ConditionTask].n >= 2
  /\ seen[BodyTask].vals = [k \in {"input"} |-> IntVal(0)]
  /\ seen[ConditionTask].vals = seen[BodyTask].vals
  /\ counter = 1

\* the predicate of the condition B returns an index that names none of the
\* successors B has in the task graph
OutOfRange ==
  /\ scen.kind = "cond"
  /\ ~(0 <= scen.ret[1] /\ scen.ret[1] < Len(gb.taskflow_[CondTask].succ))

\* C37: a Condition with n successors whose predicate returns an index
\* outside 0..n-1 (negative or >= n) runs none of its successors, still
\* writes the returned index to its "result" channel, and the run terminates
\* without error: no task fails and run() returns.
C37_OutOfRangeIndexRunsNothing ==
  /\ []((Running /\ OutOfRange) =>
         /\ \A s \in Range(gb.taskflow_[CondTask].succ) : queued[s] + Invocations(s) = 0
         /\ \A t \in Tasks : fails[t] = 0
         /\ (runs[CondTask] = 1 /\ "result" \in DOMAIN gb.taskflow_[CondTask].w.out) =>
              gb.heap[gb.taskflow_[CondTask].w.out["result"]] =
                [set |-> TRUE, val |-> IntVal(scen.ret[1]), exc |-> FALSE])
  /\ [](OutOfRange => <>(scen.kind = "cond" /\ phase = "done" /\ runs[CondTask] = 1))

\* run() has returned for three successors and the index 3, and for a negative
\* index: the index is in "result" and no successor ran
C37_Witness ==
  /\ phase = "done"
  /\ OutOfRange
  /\ scen.nsucc = 3
  /\ scen.ret[1] \in {0 - 1, 3}
  /\ scen.keys = {"result"}
  /\ runs[CondTask] = 1
  /\ gb.heap[gb.taskflow_[CondTask].w.out["result"]].val = IntVal(scen.ret[1])
  /\ \A j \in BranchIndices : NotRun(j)

\* the loop around an existing body task was created last
LoopAroundTask == last_call.op = "create_loop_decl(body_task)"

\* the body of that loop: the task the new condition has as successor 0
LoopBodyTask == gb.taskflow_[Len(gb.taskflow_)].succ[1]

\* C38: create_loop_decl(name, depend_on_nodes, body_task, condition_func,
\* exit_task) makes the body start only after every node named in
\* depend_on_nodes has completed (the task of each is a predecessor of the
\* body), and a name that is not registered in the builder is reported as a
\* construction error instead of being ignored.
C38_DependOnNodesCheckedAndWired ==
  LoopAroundTask =>
    /\ (\E i \in DOMAIN last_call.deps : last_call.deps[i] \notin DOMAIN last_call.prev.tasks_)
         => last_call.err # ""
    /\ last_call.err = "" =>
         \A i \in DOMAIN last_call.deps :
           LET n == last_call.deps[i] IN
           (n \in DOMAIN last_call.prev.tasks_ /\ last_call.prev.tasks_[n] # LoopBodyTask) =>
             LoopBodyTask \in Range(gb.taskflow_[last_call.prev.tasks_[n]].succ)

====
